---------------------------- MODULE Spec2Model ----------------------------
(***************************************************************************)
(* A model of the zillow-scraper request handler (src/unnamed/part_000):   *)
(* the strict RapidAPI lookup, the fuzzy search-result picker, the         *)
(* POST /zestimate route and the expanded response builder.                *)
(*                                                                         *)
(* Strings are sequences of one-character strings, so that lowercasing,    *)
(* trimming, stripping and substring search are computed, not assumed.     *)
(* JavaScript values are tagged records [t |-> type, v |-> value].         *)
(***************************************************************************)
EXTENDS Integers, Sequences, FiniteSets, TLC

(***************************************************************************)
(* Characters and strings                                                  *)
(***************************************************************************)
UpperCase == <<"A","B","C","D","E","F","G","H","I","J","K","L","M",
               "N","O","P","Q","R","S","T","U","V","W","X","Y","Z">>

LowerCase == <<"a","b","c","d","e","f","g","h","i","j","k","l","m",
               "n","o","p","q","r","s","t","u","v","w","x","y","z">>

Digits == <<"0","1","2","3","4","5","6","7","8","9">>

Range(s) == {s[i] : i \in DOMAIN s}

UpperSet == Range(UpperCase)

LowerSet == Range(LowerCase)

DigitSet == Range(Digits)

IsUpper(c) == c \in UpperSet

IsLower(c) == c \in LowerSet

IsDigit(c) == c \in DigitSet

\* JavaScript's \s, restricted to the characters the model uses
IsSpace(c) == c \in {" ", "\t", "\n"}

\* JavaScript's \w: [A-Za-z0-9_]
IsWordChar(c) == IsUpper(c) \/ IsLower(c) \/ IsDigit(c) \/ c = "_"

ToLowerChar(c) ==
    IF IsUpper(c)
    THEN LowerCase[CHOOSE i \in DOMAIN UpperCase : UpperCase[i] = c]
    ELSE c

\* String.prototype.toLowerCase
ToLowerCase(s) == [i \in 1..Len(s) |-> ToLowerChar(s[i])]

\* String.prototype.trim
Trim(s) ==
    LET keep == {i \in 1..Len(s) : ~IsSpace(s[i])}
        lo   == CHOOSE i \in keep : \A j \in keep : i <= j
        hi   == CHOOSE i \in keep : \A j \in keep : i >= j
    IN  IF keep = {} THEN <<>> ELSE SubSeq(s, lo, hi)

\* String.prototype.includes
Includes(s, sub) ==
    \E i \in 1..(Len(s) - Len(sub) + 1) : SubSeq(s, i, i + Len(sub) - 1) = sub

\* String.prototype.startsWith
StartsWith(s, pre) == Len(s) >= Len(pre) /\ SubSeq(s, 1, Len(pre)) = pre

\* s.replace(/[^\w]/g, "")
StripNonWord(s) == SelectSeq(s, IsWordChar)

\* s.replace(/\D/g, "")
StripNonDigit(s) == SelectSeq(s, IsDigit)

RECURSIVE NatToStr(_)
\* the decimal digits of a natural number
NatToStr(n) ==
    IF n < 10 THEN <<Digits[n + 1]>>
    ELSE Append(NatToStr(n \div 10), Digits[(n % 10) + 1])

(***************************************************************************)
(* JavaScript values                                                       *)
(***************************************************************************)
Undefined == [t |-> "undefined"]

Null == [t |-> "null"]

JStr(s) == [t |-> "string", v |-> s]

JNum(n) == [t |-> "number", v |-> n]

\* an object is the sequence of its <<key, value>> pairs in insertion order
JObj(pairs) == [t |-> "object", v |-> pairs]

JArr(items) == [t |-> "array", v |-> items]

IsNullish(x) == x.t \in {"undefined", "null"}

\* the values that count as true in a condition
Truthy(x) ==
    CASE x.t \in {"undefined", "null"} -> FALSE
      [] x.t = "string" -> x.v # <<>>
      [] x.t = "number" -> x.v # 0
      [] OTHER -> TRUE

\* a || b
Or(a, b) == IF Truthy(a) THEN a ELSE b

\* a ?? b
Coalesce(a, b) == IF IsNullish(a) THEN b ELSE a

\* o?.k  (also o[k] on a truthy o): a property of a non-object is undefined
Get(o, k) ==
    IF o.t = "object" /\ \E i \in DOMAIN o.v : o.v[i][1] = k
    THEN o.v[CHOOSE i \in DOMAIN o.v : o.v[i][1] = k][2]
    ELSE Undefined

\* String(x)
StringOf(x) ==
    CASE x.t = "string" -> x.v
      [] x.t = "number" -> NatToStr(x.v)
      [] x.t = "null" -> <<"n","u","l","l">>
      [] x.t = "undefined" -> <<"u","n","d","e","f","i","n","e","d">>
      [] OTHER -> <<"[","o","b","j","e","c","t"," ","O","b","j","e","c","t","]">>

\* C5 mutant: a normalisation that lowercases and trims but removes nothing
C5_normKeepsPunctuation(s) == Trim(ToLowerCase(StringOf(Or(s, JStr(<<>>)))))

\* norm(s): String(s || "").toLowerCase().replace(/[^\w]/g, "").trim()
norm(s) == Trim(StripNonWord(ToLowerCase(StringOf(Or(s, JStr(<<>>))))))

(***************************************************************************)
(* Address variant generation (directionals + abbrev/expanded)             *)
(***************************************************************************)
Pad(w) == <<" ">> \o w \o <<" ">>

\* the ten abbreviation pairs, in the order of the object literals
AbbrPairs ==
    << << <<"S","t">>,         <<"S","t","r","e","e","t">> >>,
       << <<"D","r">>,         <<"D","r","i","v","e">> >>,
       << <<"R","d">>,         <<"R","o","a","d">> >>,
       << <<"A","v","e">>,     <<"A","v","e","n","u","e">> >>,
       << <<"L","n">>,         <<"L","a","n","e">> >>,
       << <<"C","t">>,         <<"C","o","u","r","t">> >>,
       << <<"B","l","v","d">>, <<"B","o","u","l","e","v","a","r","d">> >>,
       << <<"P","k","w","y">>, <<"P","a","r","k","w","a","y">> >>,
       << <<"T","e","r">>,     <<"T","e","r","r","a","c","e">> >>,
       << <<"C","i","r">>,     <<"C","i","r","c","l","e">> >> >>

abbrToFull == [i \in DOMAIN AbbrPairs |-> <<Pad(AbbrPairs[i][1]), Pad(AbbrPairs[i][2])>>]

fullToAbbr == [i \in DOMAIN AbbrPairs |-> <<Pad(AbbrPairs[i][2]), Pad(AbbrPairs[i][1])>>]

RECURSIVE ReplaceAllCI(_, _, _)
\* t.replace(new RegExp(k, "gi"), v) for a key without metacharacters:
\* leftmost matches, not overlapping, the replacement is not rescanned
ReplaceAllCI(t, k, v) ==
    IF Len(t) < Len(k) THEN t
    ELSE IF ToLowerCase(SubSeq(t, 1, Len(k))) = ToLowerCase(k)
         THEN v \o ReplaceAllCI(SubSeq(t, Len(k) + 1, Len(t)), k, v)
         ELSE <<t[1]>> \o ReplaceAllCI(Tail(t), k, v)

RECURSIVE SwapFrom(_, _, _)
SwapFrom(t, map, i) ==
    IF i > Len(map) THEN t
    ELSE SwapFrom(ReplaceAllCI(t, map[i][1], map[i][2]), map, i + 1)

swapWords(s, map) == Trim(SwapFrom(Pad(s), map, 1))

DirectionalTokens ==
    { <<"n">>, <<"s">>, <<"e">>, <<"w">>,
      <<"n","e">>, <<"n","w">>, <<"s","e">>, <<"s","w">> }

\* /\b(N|S|E|W|NE|NW|SE|SW)\b/i.test(base)
hasDirectional(base) ==
    \E i \in 1..Len(base) : \E j \in i..Len(base) :
        /\ ToLowerCase(SubSeq(base, i, j)) \in DirectionalTokens
        /\ (i = 1 \/ ~IsWordChar(base[i - 1]))
        /\ (j = Len(base) \/ ~IsWordChar(base[j + 1]))

\* base.match(/^(\d+)\s+(.*)$/): <<>> when there is no match, else <<m2[1], m2[2]>>
HouseNumberMatch(base) ==
    LET nd   == CHOOSE n \in 0..Len(base) :
                    /\ \A i \in 1..n : IsDigit(base[i])
                    /\ (n = Len(base) \/ ~IsDigit(base[n + 1]))
        ns   == CHOOSE n \in nd..Len(base) :
                    /\ \A i \in (nd + 1)..n : IsSpace(base[i])
                    /\ (n = Len(base) \/ ~IsSpace(base[n + 1]))
        rest == SubSeq(base, ns + 1, Len(base))
    IN  IF nd >= 1 /\ ns > nd /\ "\n" \notin Range(rest)
        THEN <<SubSeq(base, 1, nd), rest>>
        ELSE <<>>

\* C14 mutant: every string is appended, whether or not it is already there
C14_AddVariantAlways(variants, s) == Append(variants, s)

\* Set.prototype.add on a set kept in insertion order
AddVariant(variants, s) == IF s \in Range(variants) THEN variants ELSE Append(variants, s)

\* C16 mutant: the directionals in another order
C16_OrderNSEW == << <<"N">>, <<"S">>, <<"E">>, <<"W">> >>

DirectionalOrder == << <<"E">>, <<"W">>, <<"N">>, <<"S">> >>

RECURSIVE AddDirectionals(_, _, _)
AddDirectionals(variants, m2, i) ==
    IF i > Len(DirectionalOrder) THEN variants
    ELSE AddDirectionals(
             AddVariant(variants, m2[1] \o <<" ">> \o DirectionalOrder[i] \o <<" ">> \o m2[2]),
             m2, i + 1)

\* C17 mutant: the trimmed address is the only variant, kept even when empty
C17_VariantsKeepEmpty(address) == <<Trim(StringOf(Or(address, JStr(<<>>))))>>

generateAddressVariants(address) ==
    LET base == Trim(StringOf(Or(address, JStr(<<>>))))
        v1   == <<base>>
        v2   == AddVariant(v1, swapWords(base, abbrToFull))
        v3   == AddVariant(v2, swapWords(base, fullToAbbr))
        m2   == HouseNumberMatch(base)
        v4   == IF ~hasDirectional(base) /\ m2 # <<>>
                THEN AddDirectionals(v3, m2, 1)
                ELSE v3
    IN  IF base = <<>> THEN <<>> ELSE SelectSeq(v4, LAMBDA s : s # <<>>)

(***************************************************************************)
(* Strict validation of one RapidAPI payload (rapidApiLookupStrict)        *)
(***************************************************************************)
\* the value of an expression whose evaluation raised a TypeError
Threw == [t |-> "throw"]

\* (x || "").toLowerCase().trim(): a truthy non-string has no toLowerCase
LowerTrim(x) ==
    LET y == Or(x, JStr(<<>>))
    IN  IF y.t = "string" THEN JStr(Trim(ToLowerCase(y.v))) ELSE Threw

\* String(x || "").trim()
StringTrim(x) == JStr(Trim(StringOf(Or(x, JStr(<<>>)))))

\* const want = { city, state, zip }
Want(city, state, zip) ==
    [city |-> LowerTrim(city), state |-> LowerTrim(state), zip |-> StringTrim(zip)]

WantThrows(w) == w.city = Threw \/ w.state = Threw

\* a ?? b ?? c ?? null over the three places a field is looked for
FirstOf3(data, k) ==
    Coalesce(Coalesce(Coalesce(Get(data, k), Get(Get(data, "result"), k)),
                      Get(Get(data, "data"), k)),
             Null)

ZillowOrigin ==
    <<"h","t","t","p","s",":","/","/","w","w","w",".","z","i","l","l","o","w",".","c","o","m">>

HttpPrefix == <<"h","t","t","p">>

\* rawUrl ? (String(rawUrl).startsWith("http") ? rawUrl : `https://www.zillow.com${rawUrl}`) : null
AbsoluteUrl(rawUrl) ==
    IF ~Truthy(rawUrl) THEN Null
    ELSE IF StartsWith(StringOf(rawUrl), HttpPrefix) THEN rawUrl
         ELSE JStr(ZillowOrigin \o StringOf(rawUrl))

gotCity(data) == LowerTrim(Or(Get(Get(data, "address"), "city"), Get(data, "city")))

gotState(data) == LowerTrim(Or(Get(Get(data, "address"), "state"), Get(data, "state")))

gotZip(data) == StringTrim(Or(Get(Get(data, "address"), "zipcode"), Get(data, "zipcode")))

\* C4 mutant: the candidate's city only has to contain the query city
C4_cityMatchSubstring(data, w) ==
    /\ gotCity(data) # Threw
    /\ Includes(gotCity(data).v, w.city.v)

cityMatch(data, w) == gotCity(data) = w.city

stateMatch(data, w) == gotState(data) = w.state

zipMatch(data, w) == ~Truthy(w.zip) \/ gotZip(data) = w.zip

\* the body of the try block after `const data = await resp.json()`
StrictVerdict(data, w) ==
    LET zestimate == FirstOf3(data, "zestimate")
        zpid      == FirstOf3(data, "zpid")
        threw     == gotCity(data) = Threw \/ gotState(data) = Threw
    IN  [ threw        |-> threw,
          zestimate    |-> zestimate,
          zpid         |-> zpid,
          property_url |-> AbsoluteUrl(FirstOf3(data, "url")),
          acceptable   |-> /\ ~threw
                           /\ cityMatch(data, w)
                           /\ stateMatch(data, w)
                           /\ zipMatch(data, w)
                           /\ (Truthy(zestimate) \/ Truthy(zpid)) ]

\* the endpoint shapes, in the order of the `candidates` array
EndpointShapes ==
    << [path |-> "/property",          params |-> "citystatezip"],
       [path |-> "/propertyExtended",  params |-> "citystatezip"],
       [path |-> "/propertyByAddress", params |-> "citystatezip"],
       [path |-> "/property",          params |-> "fields"],
       [path |-> "/propertyDetails",   params |-> "fields"] >>

NumShapes == Len(EndpointShapes)

(***************************************************************************)
(* Fuzzy selection among the search results (pickBestSearchResult)         *)
(***************************************************************************)
\* the score the loop body gives one result
ResultScore(r, targetAddr, targetCity) ==
    LET addrText == norm(Or(Get(r, "address"), JStr(<<>>)))
    IN  (IF Includes(addrText, targetAddr) THEN 2 ELSE 0)
      + (IF Includes(addrText, targetCity) THEN 1 ELSE 0)

\* C6 mutant: a later result with an equal score replaces the earlier one
C6_BetterOrEqual(score, bestScore) == score >= bestScore

\* whether the loop replaces the best result seen so far
Better(score, bestScore) == score > bestScore

RECURSIVE PickLoop(_, _, _, _, _)
PickLoop(results, targetAddr, targetCity, i, acc) ==
    IF i > Len(results) THEN acc
    ELSE LET score == ResultScore(results[i], targetAddr, targetCity)
         IN  PickLoop(results, targetAddr, targetCity, i + 1,
                      IF Better(score, acc.score)
                      THEN [best |-> results[i], score |-> score, index |-> i]
                      ELSE acc)

\* returns { best, score }; index is the position of best in results (0: none)
pickBestSearchResult(results, address, city) ==
    PickLoop(IF results.t = "array" THEN results.v ELSE <<>>,
             norm(address), norm(city), 1,
             [best |-> Null, score |-> -1, index |-> 0])

(***************************************************************************)
(* Path lookup and the regex rescue (extractZpidAndZestimate)              *)
(***************************************************************************)
RECURSIVE Walk(_, _, _)
\* p.split(".").reduce((o, k) => (o ? o[k] : undefined), obj)
Walk(o, path, i) ==
    IF i > Len(path) THEN o
    ELSE Walk(IF Truthy(o) THEN Get(o, path[i]) ELSE Undefined, path, i + 1)

RECURSIVE C18_tryPathsTruthy(_, _, _)
\* C18 mutant: a path whose value is 0 or "" counts as failed
C18_tryPathsTruthy(obj, paths, i) ==
    IF i > Len(paths) THEN Undefined
    ELSE LET v == Walk(obj, paths[i], 1)
         IN  IF Truthy(v) THEN v ELSE C18_tryPathsTruthy(obj, paths, i + 1)

RECURSIVE tryPaths(_, _, _)
\* the first path, from index i, whose walk ends in a value; undefined otherwise
tryPaths(obj, paths, i) ==
    IF i > Len(paths) THEN Undefined
    ELSE LET v == Walk(obj, paths[i], 1)
         IN  IF ~IsNullish(v) THEN v ELSE tryPaths(obj, paths, i + 1)

ZestimatePaths ==
    << <<"homeInfo", "zestimate">>,
       <<"zestimate">>,
       <<"property", "zestimate">>,
       <<"homeDetails", "zestimate">>,
       <<"props", "pageProps", "componentProps", "gdpClientCache", "default", "zestimate">> >>

ZpidPaths ==
    << <<"homeInfo", "zpid">>,
       <<"zpid">>,
       <<"property", "zpid">>,
       <<"props", "pageProps", "componentProps", "zpid">> >>

RECURSIVE StrToNat(_)
\* Number(s) for a string of digits ("" gives 0)
StrToNat(s) ==
    IF s = <<>> THEN 0
    ELSE 10 * StrToNat(SubSeq(s, 1, Len(s) - 1))
         + ((CHOOSE i \in DOMAIN Digits : Digits[i] = s[Len(s)]) - 1)

\* the leading run of digits of s
LeadingDigits(s) ==
    LET n == CHOOSE k \in 0..Len(s) :
                 /\ \A i \in 1..k : IsDigit(s[i])
                 /\ (k = Len(s) \/ ~IsDigit(s[k + 1]))
    IN  SubSeq(s, 1, n)

ZestimateMinDigits == 4

ZestimateMaxDigits == 9

\* what /"zestimate"\s*:\s*(\d{4,9})/ captures at a property with this value
ZestimateCapture(val) ==
    IF val.t = "number" /\ Len(NatToStr(val.v)) >= ZestimateMinDigits
    THEN LET d == NatToStr(val.v)
         IN  JNum(StrToNat(SubSeq(d, 1, IF Len(d) > ZestimateMaxDigits
                                        THEN ZestimateMaxDigits ELSE Len(d))))
    ELSE Null

\* what /"zpid"\s*:\s*"?(\d+)"?/ captures at a property with this value
ZpidCapture(val) ==
    CASE val.t = "number" -> JNum(val.v)
      [] val.t = "string" /\ LeadingDigits(val.v) # <<>> -> JNum(StrToNat(LeadingDigits(val.v)))
      [] OTHER -> Null

Capture(key, val) == IF key = "zestimate" THEN ZestimateCapture(val) ELSE ZpidCapture(val)

RECURSIVE ScanValue(_, _)
RECURSIVE ScanItems(_, _, _)
\* the first capture of the pattern for `key` in JSON.stringify(v), scanning the
\* text left to right: a property's own value comes before what is nested in it
ScanValue(v, key) ==
    IF v.t \in {"object", "array"} THEN ScanItems(v, key, 1) ELSE Null

ScanItems(v, key, i) ==
    IF i > Len(v.v) THEN Null
    ELSE LET val  == IF v.t = "object" THEN v.v[i][2] ELSE v.v[i]
             here == IF v.t = "object" /\ v.v[i][1] = key THEN Capture(key, val) ELSE Null
             deep == ScanValue(val, key)
         IN  IF here # Null THEN here
             ELSE IF deep # Null THEN deep
             ELSE ScanItems(v, key, i + 1)

extractZpidAndZestimate(anyObj) ==
    IF ~Truthy(anyObj) THEN [zpid |-> Null, zestimate |-> Null]
    ELSE
    LET zestimateCandidate == tryPaths(anyObj, ZestimatePaths, 1)
        zpidCandidate      == tryPaths(anyObj, ZpidPaths, 1)
        zestimate1 == IF zestimateCandidate.t = "number" THEN zestimateCandidate ELSE Null
        zpid1      == IF zpidCandidate.t \in {"number", "string"}
                      THEN Or(JNum(StrToNat(StripNonDigit(StringOf(zpidCandidate)))), Null)
                      ELSE Null
        m          == ScanValue(anyObj, "zestimate")
        m2         == ScanValue(anyObj, "zpid")
    IN  [ zpid      |-> IF ~Truthy(zpid1) /\ m2 # Null THEN m2 ELSE zpid1,
          zestimate |-> IF ~Truthy(zestimate1) /\ m # Null THEN m ELSE zestimate1 ]

(***************************************************************************)
(* Expanded response builder (sendExpanded) and the route's other payloads *)
(***************************************************************************)
RECURSIVE pick(_, _, _)
\* pick(...paths) over out.data: null when no path has a value
pick(d, paths, i) ==
    IF i > Len(paths) THEN Null
    ELSE LET v == Walk(d, paths[i], 1)
         IN  IF ~IsNullish(v) THEN v ELSE pick(d, paths, i + 1)

ApiConfidenceWithValuation == 85

ApiConfidenceWithoutValuation == 60

\* C24 mutant: a record accepted without a valuation is given no confidence
C24_ApiConfidenceOnlyWithValuation(zestimate) ==
    IF Truthy(zestimate) THEN ApiConfidenceWithValuation ELSE 0

\* match_confidence: zestimate ? 85 : 60
ApiConfidence(zestimate) ==
    IF Truthy(zestimate) THEN ApiConfidenceWithValuation ELSE ApiConfidenceWithoutValuation

sendExpanded(out) ==
    LET d         == Or(out.data, JObj(<<>>))
        zestimate == Coalesce(out.zestimate,
                         Coalesce(Coalesce(pick(d, << <<"zestimate">> >>, 1),
                                           pick(d, << <<"result", "zestimate">> >>, 1)),
                                  pick(d, << <<"data", "zestimate">> >>, 1)))
    IN  [ status           |-> 200,
          ok               |-> TRUE,
          source           |-> "rapidapi-fallback",
          tried            |-> out.tried,
          property_url     |-> out.property_url,
          zpid             |-> Coalesce(out.zpid,
                                   pick(d, << <<"zpid">>, <<"result", "zpid">>, <<"data", "zpid">> >>, 1)),
          zestimate        |-> zestimate,
          match_confidence |-> ApiConfidence(zestimate) ]

\* the four empty results of the route differ in source and note only
\* C8 mutant: the empty result is reported as a failure
C8_NoMatchAsFailure(source, note) == [status |-> 200, ok |-> FALSE, error |-> note]

NoMatchPayload(source, note) ==
    [ status           |-> 200,
      ok               |-> TRUE,
      source           |-> source,
      zestimate        |-> Null,
      zpid             |-> Null,
      property_url     |-> Null,
      match_confidence |-> 0,
      note             |-> note ]

NoteNoApiRecord == "No matching record from RapidAPI for the requested city/ZIP."

NoteNoBlob == "No search data blob found."

NoteNoResults == "No search results in blob."

NoteNoProperty == "No matching property found."

DocConfidenceWithValuation == 90

DocConfidenceFloor == 20

DocConfidencePerPoint == 10

\* C7 mutant: the fuzzy score times ten, without the floor
C7_DocConfidenceUnfloored(zestimate, score) ==
    IF Truthy(zestimate) THEN DocConfidenceWithValuation ELSE score * DocConfidencePerPoint

\* match_confidence: zestimate ? 90 : Math.max(20, (score || 0) * 10)
DocConfidence(zestimate, score) ==
    IF Truthy(zestimate) THEN DocConfidenceWithValuation
    ELSE IF score * DocConfidencePerPoint > DocConfidenceFloor
         THEN score * DocConfidencePerPoint
         ELSE DocConfidenceFloor

DocPayload(detailUrl, zpid, zestimate, score) ==
    [ status           |-> 200,
      ok               |-> TRUE,
      source           |-> "searchUrl",
      property_url     |-> detailUrl,
      zpid             |-> zpid,
      zestimate        |-> zestimate,
      match_confidence |-> DocConfidence(zestimate, score) ]

\* the catch block's payload: status 200 with ok false
FailurePayload == [status |-> 200, ok |-> FALSE, error |-> "String(err?.message || err)"]

InputErrorPayload ==
    [status |-> 400, ok |-> FALSE, error |-> "address, city, state are required"]

UnauthorizedPayload == [status |-> 401, ok |-> FALSE, error |-> "Unauthorized"]

(***************************************************************************)
(* Reading the search page and the detail page                             *)
(***************************************************************************)
\* lines 357-373: listResults from the __NEXT_DATA__ shape, else from a store shape
listResultsOf(root) ==
    LET viaNext  == Walk(root, <<"props", "pageProps", "searchPageState", "cat1",
                                 "searchResults", "listResults">>, 1)
        viaStore == Or(Or(Walk(root, <<"cat1", "searchResults", "listResults">>, 1),
                          Walk(root, <<"searchResults", "listResults">>, 1)),
                       Null)
    IN  IF viaNext.t = "array" THEN viaNext ELSE viaStore

\* best.detailUrl.startsWith("http") ? best.detailUrl : `https://www.zillow.com${best.detailUrl}`
DetailUrlOf(best) ==
    LET u == Get(best, "detailUrl")
    IN  IF StartsWith(u.v, HttpPrefix) THEN u ELSE JStr(ZillowOrigin \o u.v)

DetailCandidates(detailRoot) ==
    << Walk(detailRoot, <<"props", "pageProps", "componentProps", "initialReduxState">>, 1),
       Walk(detailRoot, <<"props", "pageProps", "componentProps", "gdpClientCache">>, 1),
       Walk(detailRoot, <<"props", "pageProps">>, 1),
       detailRoot >>

RECURSIVE DetailLoop(_, _, _)
\* lines 428-432: the first truthy zpid and the first truthy zestimate over the candidates
DetailLoop(cands, i, acc) ==
    IF i > Len(cands) THEN acc
    ELSE LET e == extractZpidAndZestimate(cands[i])
         IN  DetailLoop(cands, i + 1,
                 [ zpid      |-> IF Truthy(e.zpid) /\ ~Truthy(acc.zpid) THEN e.zpid ELSE acc.zpid,
                   zestimate |-> IF Truthy(e.zestimate) /\ ~Truthy(acc.zestimate)
                                 THEN e.zestimate ELSE acc.zestimate ])

DetailFields(detailRoot) ==
    DetailLoop(DetailCandidates(detailRoot), 1, [zpid |-> Null, zestimate |-> Null])

(***************************************************************************)
(* The request handler as a state machine                                  *)
(***************************************************************************)
VARIABLES
    env,       \* process.env as the route reads it: preferApi, hasKeys
    query,     \* query[r]: the body of request r and whether its API key passed
    source,    \* source[r]: what the RapidAPI provider answers to request r
    pc,        \* pc[r]: the await the handler of request r is suspended at
    lk,        \* lk[r]: the frame of the running (or last) rapidApiLookupStrict call
    attempts,  \* attempts[r]: the <<variant, shape>> fetches issued, in order
    last,      \* last[r]: how the previous await of the running lookup settled
    calls,     \* calls[r]: how the calls of rapidApiLookupStrict ended, in order
    browser,   \* browser[r]: "none", "open", "closed"
    doc,       \* doc[r]: the locals kept across the detail page: score, detailUrl
    res,       \* res[r]: the payloads sent with res.json, in order
    arg,       \* the arguments of the pure function under check
    ret        \* its result

vars == <<env, query, source, pc, lk, attempts, last, calls, browser, doc, res, arg, ret>>

\* ---- bounds and the values the inputs are drawn from ----
MaxResults == 2

sElmSt == <<"1","2"," ","E","l","m"," ","S","t">>

sElmStreet == <<"1","2"," ","E","l","m"," ","S","t","r","e","e","t">>

sNElmSt == <<"1","2"," ","N"," ","E","l","m"," ","S","t">>

sAustin == <<"A","u","s","t","i","n">>

sTX == <<"T","X">>

sZip == <<"7","8","7","0","1">>

Blank == <<" ", " ">>

\* the required fields vary together; zip and the API key vary on the full query
BaseQuery ==
    [address |-> JStr(sElmSt), city |-> JStr(sAustin), state |-> JStr(sTX),
     zip |-> JStr(sZip), authorized |-> TRUE]

QueryBodies ==
    [ address : {Undefined, JStr(Blank), JStr(sElmSt)},
      city    : {Undefined, JStr(Blank), JStr(sAustin), JNum(5)},
      state   : {Undefined, JStr(sTX)},
      zip     : {JStr(sZip)},
      authorized : {TRUE} ]
    \cup {[BaseQuery EXCEPT !.zip = Undefined], [BaseQuery EXCEPT !.authorized = FALSE]}

\* a payload of the provider: city, zestimate and zpid vary, the rest is fixed
ApiPayload(city, zestimate, zpid) ==
    JObj(<< <<"address", JObj(<< <<"city", city>>, <<"state", JStr(<<"t","x">>)>>,
                                 <<"zipcode", JNum(78701)>> >>)>>,
            <<"zestimate", zestimate>>,
            <<"zpid", zpid>>,
            <<"url", JStr(<<"/","h","o","m","e">>)>> >>)

ApiPayloads ==
    { ApiPayload(JStr(<<" ","a","u","s","t","i","n">>), JNum(450000), JStr(<<"7","7">>)),
      ApiPayload(JStr(<<" ","a","u","s","t","i","n">>), Null, JStr(<<"7","7">>)),
      ApiPayload(JStr(<<" ","a","u","s","t","i","n">>), Null, Null),
      ApiPayload(JStr(<<"D","a","l","l","a","s">>), JNum(450000), JStr(<<"7","7">>)) }

\* the provider holds one record, reachable under one spelling of the address
\* and through some of the endpoint shapes; NoRecord is a provider without it
NoRecord == [addr |-> <<>>, shapes |-> {}, data |-> Null]

Sources ==
    {NoRecord} \cup
    [ addr   : {sElmStreet, sNElmSt},
      shapes : {{1}, {3, 5}},
      data   : ApiPayloads ]

\* whether the provider returns its record to the fetch of (a, shape j)
Hit(src, a, j) == src.addr = a /\ j \in src.shapes

\* a body that parses but holds no record
EmptyBodies == {Null, JObj(<<>>)}

ResultItems ==
    { JObj(<< <<"address", JStr(<<"1","2"," ","E","l","m"," ","S","t",","," ","A","u","s","t","i","n">>)>>,
              <<"detailUrl", JStr(<<"/","a">>)>> >>),
      JObj(<< <<"address", JStr(<<"1","2"," ","e","l","m"," ","s","t",".">>)>> >>),
      JObj(<< <<"address", JStr(<<"9"," ","O","a","k",","," ","A","u","s","t","i","n">>)>>,
              <<"detailUrl", JStr(<<"h","t","t","p","/","c">>)>> >>) }

ResultLists == UNION {[1..n -> ResultItems] : n \in 0..MaxResults}

NextDataRoot(list) ==
    JObj(<< <<"props", JObj(<< <<"pageProps", JObj(<< <<"searchPageState", JObj(<<
        <<"cat1", JObj(<< <<"searchResults", JObj(<< <<"listResults", JArr(list)>> >>)>> >>)>>
    >>)>> >>)>> >>)>> >>)

StoreRoot(list) == JObj(<< <<"searchResults", JObj(<< <<"listResults", JArr(list)>> >>)>> >>)

\* what waitAndGetAnyDataBlob gives on the search page:
\* it throws, finds no blob, or finds a text that parses or not
SearchBlobs ==
    {[kind |-> "throw"], [kind |-> "none"], [kind |-> "unparsable"]}
    \cup {[kind |-> "json", root |-> NextDataRoot(l)] : l \in ResultLists}
    \cup {[kind |-> "json", root |-> StoreRoot(l)] : l \in {l \in ResultLists : Len(l) = 1}}
    \cup {[kind |-> "json", root |-> JObj(<<>>)]}

GdpRoot(fields) ==
    JObj(<< <<"props", JObj(<< <<"pageProps", JObj(<< <<"componentProps", JObj(<<
        <<"gdpClientCache", JObj(fields)>> >>)>> >>)>> >>)>> >>)

DetailBlobs ==
    { [kind |-> "throw"], [kind |-> "none"], [kind |-> "unparsable"],
      [kind |-> "json", root |-> GdpRoot(<< <<"zpid", JNum(77)>>, <<"zestimate", JNum(450000)>> >>)],
      [kind |-> "json", root |-> GdpRoot(<< <<"zpid", JStr(<<"7","7">>)>> >>)],
      [kind |-> "json", root |-> JObj(<<>>)] }

\* ---- rapidApiLookupStrict: the loops over variants and endpoint shapes ----
Set(f, r, v) == [f EXCEPT ![r] = v]

NoPair == <<0, 0>>

\* C2 mutant: the lookup starts at the last variant, leaving the earlier ones out
C2_FirstPairLastVariant(nAddrs) == IF nAddrs = 0 THEN NoPair ELSE <<nAddrs, 1>>

\* the first iteration of `for (const a of addrs) for (const cand of candidates)`
FirstPair(nAddrs) == IF nAddrs = 0 THEN NoPair ELSE <<1, 1>>

\* C1 mutant: the outer loop runs over the shapes, the inner one over the variants
C1_NextPairShapeMajor(i, j, nAddrs) ==
    IF i < nAddrs THEN <<i + 1, j>>
    ELSE IF j < NumShapes THEN <<1, j + 1>>
    ELSE NoPair

\* the iteration after (i, j): the inner loop runs over the shapes
NextPair(i, j, nAddrs) ==
    IF j < NumShapes THEN <<i, j + 1>>
    ELSE IF i < nAddrs THEN <<i + 1, 1>>
    ELSE NoPair

\* how an attempt can end without a record being accepted
FailureKinds == {"timeout", "transport", "status", "malformed", "threw"}

\* C3 mutant: a timeout or a transport error ends the lookup with an exception
C3_AbortOnFailure(kind) == IF kind \in {"timeout", "transport"} THEN "abort" ELSE "next"

\* what the loop does with an attempt that ended this way: `continue`, the
\* empty catch block, or falling out of the `if`
AfterAttempt(kind) == "next"

IdleFrame ==
    [site |-> "none", addrs |-> <<>>, want |-> Want(Undefined, Undefined, Undefined),
     i |-> 0, j |-> 0]

\* the frame of a call that has returned: no call site, no position; what the
\* call computed before its loops stays readable
Returned(frame) == [frame EXCEPT !.site = "none", !.i = 0, !.j = 0]

NoMatchOut ==
    [ok |-> FALSE, tried |-> [path |-> "", addr |-> <<>>], zestimate |-> Null,
     zpid |-> Null, property_url |-> Null, data |-> Null]

\* the statement after `await rapidApiLookupStrict(...)` at either call site
LookupReturns(r, site, out, pair) ==
    /\ last' = Set(last, r, "none")
    /\ calls' = Set(calls, r, Append(calls[r],
                    [site |-> site, ok |-> out.ok, pair |-> pair, threw |-> FALSE]))
    /\ IF out.ok
       THEN /\ res' = Set(res, r, Append(res[r], sendExpanded(out)))
            /\ pc' = Set(pc, r, IF site = "first" THEN "done" ELSE "closing")
       ELSE IF site = "first"
            THEN /\ res' = res
                 /\ pc' = Set(pc, r, "launch")
            ELSE /\ res' = Set(res, r, Append(res[r],
                                NoMatchPayload("rapidapi-fallback", NoteNoApiRecord)))
                 /\ pc' = Set(pc, r, "closing")

\* the lookup raises: outside the try block at the first call site, inside it at the second
LookupThrows(r, site) ==
    /\ lk' = Set(lk, r, IdleFrame)
    /\ last' = Set(last, r, "none")
    /\ calls' = Set(calls, r, Append(calls[r],
                    [site |-> site, ok |-> FALSE, pair |-> NoPair, threw |-> TRUE]))
    /\ IF site = "first"
       THEN /\ res' = res
            /\ pc' = Set(pc, r, "rejected")
       ELSE /\ res' = Set(res, r, Append(res[r], FailurePayload))
            /\ pc' = Set(pc, r, "closing")

\* C19 mutant: the fetch for the pair after this one is started along with it
C19_IssueTwoAtOnce(r, frame, pair, kind) ==
    /\ lk' = Set(lk, r, [frame EXCEPT !.i = pair[1], !.j = pair[2]])
    /\ last' = Set(last, r, kind)
    /\ attempts' = Set(attempts, r, attempts[r] \o <<pair, pair>>)
    /\ pc' = Set(pc, r, "api_fetch")
    /\ UNCHANGED <<calls, res>>

\* fetch(url, ...) for the pair: the handler is suspended on it
Issue(r, frame, pair, kind) ==
    /\ lk' = Set(lk, r, [frame EXCEPT !.i = pair[1], !.j = pair[2]])
    /\ last' = Set(last, r, kind)
    /\ attempts' = Set(attempts, r, Append(attempts[r], pair))
    /\ pc' = Set(pc, r, "api_fetch")
    /\ UNCHANGED <<calls, res>>

\* C23 mutant: the pairs fetched by an earlier call are remembered across calls
\* and left out by the next one
C23_StartLookupRemembering(r, site) ==
    LET q     == query[r]
        w     == Want(q.city, q.state, q.zip)
        addrs == generateAddressVariants(q.address)
        frame == [site |-> site, addrs |-> addrs, want |-> w, i |-> 0, j |-> 0]
        seen  == \E o \in DOMAIN attempts \ {r} : attempts[o] # <<>>
    IN  IF WantThrows(w)
        THEN LookupThrows(r, site) /\ attempts' = attempts
        ELSE IF FirstPair(Len(addrs)) = NoPair \/ seen
             THEN /\ LookupReturns(r, site, NoMatchOut, NoPair)
                  /\ lk' = Set(lk, r, Returned(frame))
                  /\ attempts' = attempts
             ELSE Issue(r, frame, FirstPair(Len(addrs)), "none")

\* the call up to its first await
StartLookup(r, site) ==
    LET q     == query[r]
        w     == Want(q.city, q.state, q.zip)
        addrs == generateAddressVariants(q.address)
        frame == [site |-> site, addrs |-> addrs, want |-> w, i |-> 0, j |-> 0]
    IN  IF WantThrows(w)
        THEN LookupThrows(r, site) /\ attempts' = attempts
        ELSE IF FirstPair(Len(addrs)) = NoPair
             THEN /\ LookupReturns(r, site, NoMatchOut, NoPair)
                  /\ lk' = Set(lk, r, Returned(frame))
                  /\ attempts' = attempts
             ELSE Issue(r, frame, FirstPair(Len(addrs)), "none")

\* the attempt at (i, j) ended without an accepted record
Advance(r, kind) ==
    LET f == lk[r]
        n == NextPair(f.i, f.j, Len(f.addrs))
    IN  IF AfterAttempt(kind) # "next"
        THEN LookupThrows(r, f.site) /\ attempts' = attempts
        ELSE IF n = NoPair
             THEN /\ LookupReturns(r, f.site, NoMatchOut, NoPair)
                  /\ lk' = Set(lk, r, Returned(f))
                  /\ attempts' = attempts
             ELSE Issue(r, f, n, kind)

\* `return { ok: true, tried, zestimate, zpid, property_url, data }`
Accept(r, data, v) ==
    LET f == lk[r]
    IN  /\ attempts' = attempts
        /\ lk' = Set(lk, r, Returned(f))
        /\ LookupReturns(r, f.site,
               [ok |-> TRUE,
                tried |-> [path |-> EndpointShapes[f.j].path, addr |-> f.addrs[f.i]],
                zestimate |-> v.zestimate, zpid |-> v.zpid,
                property_url |-> v.property_url, data |-> data],
               <<f.i, f.j>>)

\* how the provider can answer the fetch for the pair the lookup stands at
FetchOutcomes(r) ==
    LET f == lk[r]
    IN  IF Hit(source[r], f.addrs[f.i], f.j) THEN {"response"}
        ELSE {"response", "timeout", "transport", "status"}

\* `await fetch(url, { headers, signal })` settles in the given way
FetchSettleAs(r, kind) ==
    /\ pc[r] = "api_fetch"
    /\ IF kind = "response"
       THEN /\ pc' = Set(pc, r, "api_json")
            /\ last' = Set(last, r, "response")
            /\ UNCHANGED <<lk, attempts, calls, res>>
       ELSE Advance(r, kind)
    /\ UNCHANGED <<env, query, source, browser, doc, arg, ret>>

\* `await fetch(url, { headers, signal })` settles
FetchSettle(r) ==
    /\ pc[r] = "api_fetch"
    /\ \E kind \in FetchOutcomes(r) : FetchSettleAs(r, kind)

\* the bodies the provider can send for the pair the lookup stands at
BodyOutcomes(r) ==
    LET f == lk[r]
    IN  IF Hit(source[r], f.addrs[f.i], f.j)
        THEN {[parsed |-> TRUE, data |-> source[r].data]}
        ELSE {[parsed |-> FALSE]} \cup {[parsed |-> TRUE, data |-> d] : d \in EmptyBodies}

\* `await resp.json()` settles with the given body, and the payload is validated
JsonSettleAs(r, body) ==
    /\ pc[r] = "api_json"
    /\ LET f == lk[r]
       IN  IF ~body.parsed THEN Advance(r, "malformed")
           ELSE LET v == StrictVerdict(body.data, f.want)
                IN  IF v.threw THEN Advance(r, "threw")
                    ELSE IF v.acceptable THEN Accept(r, body.data, v)
                    ELSE Advance(r, "rejected")
    /\ UNCHANGED <<env, query, source, browser, doc, arg, ret>>

\* `await resp.json()` settles, and the payload is validated
JsonSettle(r) ==
    /\ pc[r] = "api_json"
    /\ \E body \in BodyOutcomes(r) : JsonSettleAs(r, body)

\* C12 mutant: the handler finishes with the response, the finally block left out
C12_ReplyAndFinish(r, payload, next) ==
    /\ res' = Set(res, r, Append(res[r], payload))
    /\ pc' = Set(pc, r, "done")

\* ---- app.post("/zestimate") ----
Reply(r, payload, next) ==
    /\ res' = Set(res, r, Append(res[r], payload))
    /\ pc' = Set(pc, r, next)

\* whether the route answers 400 to this body
MissingRequired(q) == ~Truthy(q.address) \/ ~Truthy(q.city) \/ ~Truthy(q.state)

\* C29 mutant: the route goes to the search page first whatever is configured
C29_ReceiveThenLaunch(r) ==
    /\ pc[r] = "received"
    /\ LET q == query[r]
       IN  IF ~q.authorized
           THEN Reply(r, UnauthorizedPayload, "done") /\ UNCHANGED <<lk, attempts, last, calls>>
           ELSE IF MissingRequired(q)
           THEN Reply(r, InputErrorPayload, "done") /\ UNCHANGED <<lk, attempts, last, calls>>
           ELSE /\ pc' = Set(pc, r, "launch")
                /\ UNCHANGED <<lk, attempts, last, calls, res>>
    /\ UNCHANGED <<env, query, source, browser, doc, arg, ret>>

\* from the arrival of the request to its first await
Receive(r) ==
    /\ pc[r] = "received"
    /\ LET q == query[r]
       IN  IF ~q.authorized
           THEN Reply(r, UnauthorizedPayload, "done") /\ UNCHANGED <<lk, attempts, last, calls>>
           ELSE IF MissingRequired(q)
           THEN Reply(r, InputErrorPayload, "done") /\ UNCHANGED <<lk, attempts, last, calls>>
           ELSE IF env.preferApi /\ env.hasKeys
           THEN StartLookup(r, "first")
           ELSE /\ pc' = Set(pc, r, "launch")
                /\ UNCHANGED <<lk, attempts, last, calls, res>>
    /\ UNCHANGED <<env, query, source, browser, doc, arg, ret>>

\* `await chromium.launch(...)` settles; on failure `browser` is still undefined
LaunchSettleAs(r, ok) ==
    /\ pc[r] = "launch"
    /\ IF ok THEN /\ browser' = Set(browser, r, "open")
                  /\ pc' = Set(pc, r, "goto_search")
                  /\ res' = res
       ELSE /\ Reply(r, FailurePayload, "done")
            /\ browser' = browser
    /\ UNCHANGED <<env, query, source, lk, attempts, last, calls, doc, arg, ret>>

LaunchSettle(r) == \E ok \in BOOLEAN : LaunchSettleAs(r, ok)

\* newContext, newPage and page.goto(searchUrl) settle
SearchNavSettleAs(r, ok) ==
    /\ pc[r] = "goto_search"
    /\ IF ok THEN pc' = Set(pc, r, "search_blob") /\ res' = res
       ELSE Reply(r, FailurePayload, "closing")
    /\ UNCHANGED <<env, query, source, lk, attempts, last, calls, browser, doc, arg, ret>>

SearchNavSettle(r) == \E ok \in BOOLEAN : SearchNavSettleAs(r, ok)

\* C30 mutant: when the chosen result has no detailUrl, the first result that
\* has one is opened instead
C30_SearchBlobSettleAnyUrl(r, b) ==
    /\ pc[r] = "search_blob"
    /\   LET q    == query[r]
             root == IF b.kind = "json" THEN b.root ELSE Null
             list == listResultsOf(root)
             p    == pickBestSearchResult(list, q.address, q.city)
             with == {i \in DOMAIN list.v : Truthy(Get(list.v[i], "detailUrl"))}
             best == IF Truthy(Get(p.best, "detailUrl")) \/ with = {} THEN p.best
                     ELSE list.v[CHOOSE i \in with : \A j \in with : i <= j]
             url  == Get(best, "detailUrl")
         IN  CASE b.kind = "throw" ->
                    /\ Reply(r, FailurePayload, "closing")
                    /\ UNCHANGED <<lk, attempts, last, calls, doc>>
               [] b.kind = "none" /\ env.hasKeys ->
                    /\ StartLookup(r, "fallback")
                    /\ doc' = doc
               [] b.kind = "none" /\ ~env.hasKeys ->
                    /\ Reply(r, NoMatchPayload("searchUrl", NoteNoBlob), "closing")
                    /\ UNCHANGED <<lk, attempts, last, calls, doc>>
               [] b.kind \in {"unparsable", "json"} ->
                    /\ UNCHANGED <<lk, attempts, last, calls>>
                    /\ IF list.t # "array" \/ Len(list.v) = 0
                       THEN /\ Reply(r, NoMatchPayload("searchUrl", NoteNoResults), "closing")
                            /\ doc' = doc
                       ELSE IF ~Truthy(best) \/ ~Truthy(url)
                       THEN /\ Reply(r, NoMatchPayload("searchUrl", NoteNoProperty), "closing")
                            /\ doc' = doc
                       ELSE IF url.t # "string"
                       THEN /\ Reply(r, FailurePayload, "closing")
                            /\ doc' = doc
                       ELSE /\ doc' = Set(doc, r, [score |-> p.score,
                                                   detailUrl |-> DetailUrlOf(best)])
                            /\ pc' = Set(pc, r, "goto_detail")
                            /\ res' = res
    /\ UNCHANGED <<env, query, source, browser, arg, ret>>

\* waitAndGetAnyDataBlob(page) settles on the search page
SearchBlobSettleAs(r, b) ==
    /\ pc[r] = "search_blob"
    /\   LET q    == query[r]
             root == IF b.kind = "json" THEN b.root ELSE Null
             list == listResultsOf(root)
             p    == pickBestSearchResult(list, q.address, q.city)
             url  == Get(p.best, "detailUrl")
         IN  CASE b.kind = "throw" ->
                    /\ Reply(r, FailurePayload, "closing")
                    /\ UNCHANGED <<lk, attempts, last, calls, doc>>
               [] b.kind = "none" /\ env.hasKeys ->
                    /\ StartLookup(r, "fallback")
                    /\ doc' = doc
               [] b.kind = "none" /\ ~env.hasKeys ->
                    /\ Reply(r, NoMatchPayload("searchUrl", NoteNoBlob), "closing")
                    /\ UNCHANGED <<lk, attempts, last, calls, doc>>
               [] b.kind \in {"unparsable", "json"} ->
                    /\ UNCHANGED <<lk, attempts, last, calls>>
                    /\ IF list.t # "array" \/ Len(list.v) = 0
                       THEN /\ Reply(r, NoMatchPayload("searchUrl", NoteNoResults), "closing")
                            /\ doc' = doc
                       ELSE IF ~Truthy(p.best) \/ ~Truthy(url)
                       THEN /\ Reply(r, NoMatchPayload("searchUrl", NoteNoProperty), "closing")
                            /\ doc' = doc
                       ELSE IF url.t # "string"
                       THEN /\ Reply(r, FailurePayload, "closing")
                            /\ doc' = doc
                       ELSE /\ doc' = Set(doc, r, [score |-> p.score,
                                                   detailUrl |-> DetailUrlOf(p.best)])
                            /\ pc' = Set(pc, r, "goto_detail")
                            /\ res' = res
    /\ UNCHANGED <<env, query, source, browser, arg, ret>>

SearchBlobSettle(r) == \E b \in SearchBlobs : SearchBlobSettleAs(r, b)

\* page.goto(detailUrl) settles
DetailNavSettleAs(r, ok) ==
    /\ pc[r] = "goto_detail"
    /\ IF ok THEN pc' = Set(pc, r, "detail_blob") /\ res' = res
       ELSE Reply(r, FailurePayload, "closing")
    /\ UNCHANGED <<env, query, source, lk, attempts, last, calls, browser, doc, arg, ret>>

DetailNavSettle(r) == \E ok \in BOOLEAN : DetailNavSettleAs(r, ok)

\* waitAndGetAnyDataBlob(page) settles on the detail page, and the route answers
DetailBlobSettleAs(r, b) ==
    /\ pc[r] = "detail_blob"
    /\   LET f == IF b.kind = "json" THEN DetailFields(b.root)
                  ELSE [zpid |-> Null, zestimate |-> Null]
         IN  IF b.kind = "throw"
             THEN Reply(r, FailurePayload, "closing")
             ELSE Reply(r, DocPayload(doc[r].detailUrl, f.zpid, f.zestimate, doc[r].score),
                        "closing")
    /\ UNCHANGED <<env, query, source, lk, attempts, last, calls, browser, doc, arg, ret>>

DetailBlobSettle(r) == \E b \in DetailBlobs : DetailBlobSettleAs(r, b)

\* C22 mutant: the handlers share one browser, closed by whichever finishes first
C22_CloseEveryBrowser(r, ok) ==
    /\ pc[r] = "closing"
    /\ browser' = [o \in DOMAIN browser |->
                      IF o = r \/ browser[o] = "open"
                      THEN (IF ok THEN "closed" ELSE "close-failed")
                      ELSE browser[o]]
    /\ pc' = Set(pc, r, "done")
    /\ UNCHANGED <<env, query, source, lk, attempts, last, calls, doc, res, arg, ret>>

\* finally { try { if (browser) await browser.close(); } catch {} }
CloseSettleAs(r, ok) ==
    /\ pc[r] = "closing"
    /\ browser' = Set(browser, r, IF ok THEN "closed" ELSE "close-failed")
    /\ pc' = Set(pc, r, "done")
    /\ UNCHANGED <<env, query, source, lk, attempts, last, calls, doc, res, arg, ret>>

CloseSettle(r) == \E ok \in BOOLEAN : CloseSettleAs(r, ok)

NoDoc == [score |-> -1, detailUrl |-> Null]

Requests == {1}

Init ==
    /\ env \in [preferApi : BOOLEAN, hasKeys : BOOLEAN]
    /\ query \in [Requests -> QueryBodies]
    /\ source \in [Requests -> Sources]
    /\ pc = [r \in Requests |-> "received"]
    /\ lk = [r \in Requests |-> IdleFrame]
    /\ attempts = [r \in Requests |-> <<>>]
    /\ last = [r \in Requests |-> "none"]
    /\ calls = [r \in Requests |-> <<>>]
    /\ browser = [r \in Requests |-> "none"]
    /\ doc = [r \in Requests |-> NoDoc]
    /\ res = [r \in Requests |-> <<>>]
    /\ arg = <<>>
    /\ ret = <<>>

Next ==
    \E r \in Requests :
        \/ Receive(r)
        \/ FetchSettle(r)
        \/ JsonSettle(r)
        \/ LaunchSettle(r)
        \/ SearchNavSettle(r)
        \/ SearchBlobSettle(r)
        \/ DetailNavSettle(r)
        \/ DetailBlobSettle(r)
        \/ CloseSettle(r)

Spec == Init /\ [][Next]_vars

(***************************************************************************)
(* The two scoring modes on their own: inputs drawn from bounded sets      *)
(***************************************************************************)
MaxLen == 2

\* letters in both cases, inner and outer whitespace, punctuation
ScorerAlphabet == {"a", "A", " ", "."}

Strs(n) == UNION {[1..k -> ScorerAlphabet] : k \in 0..n}

StrictArgs ==
    [ mode      : {"strict"},
      city      : {JStr(<<"a">>), JStr(<<" ","A">>), JStr(<<"a",".">>), JStr(Blank)},
      state     : {JStr(<<"T","X">>)},
      zip       : {Undefined, JStr(<<" ">>), JStr(<<"a">>), JStr(<<"7">>)},
      candCity  : {Undefined} \cup {JStr(x) : x \in Strs(MaxLen)},
      candState : {JStr(<<"t","x"," ">>), JStr(<<"t",".","x">>)},
      candZip   : {Undefined, JStr(<<"A">>), JStr(<<"a"," ">>), JNum(7)},
      candIds   : { [zestimate |-> Null, zpid |-> Null],
                    [zestimate |-> JNum(0), zpid |-> JStr(<<>>)],
                    [zestimate |-> JNum(450000), zpid |-> Null],
                    [zestimate |-> Undefined, zpid |-> JStr(<<"7","7">>)] },
      nested    : BOOLEAN ]

\* the payload the provider would send for these parts, in either of two layouts
PayloadOf(a) ==
    IF a.nested
    THEN JObj(<< <<"address", JObj(<< <<"city", a.candCity>>, <<"state", a.candState>>,
                                      <<"zipcode", a.candZip>> >>)>>,
                 <<"result", JObj(<< <<"zestimate", a.candIds.zestimate>>,
                                     <<"zpid", a.candIds.zpid>> >>)>> >>)
    ELSE JObj(<< <<"city", a.candCity>>, <<"state", a.candState>>, <<"zipcode", a.candZip>>,
                 <<"zestimate", a.candIds.zestimate>>, <<"zpid", a.candIds.zpid>> >>)

FuzzyItems ==
    { JObj(<< <<"address", JStr(<<"1"," ","E","l","m",","," ","A","u">>)>> >>),
      JObj(<< <<"address", JStr(<<"1"," ","E","L","M",".">>)>> >>),
      JObj(<< <<"address", JStr(<<"9"," ","O","a","k"," ","a","u">>)>> >>),
      JObj(<< <<"address", JStr(<<"1","_","e","l","m">>)>> >>),
      JObj(<< <<"detailUrl", JStr(<<"/","x">>)>> >>) }

FuzzyArgs ==
    [ mode    : {"fuzzy"},
      address : {JStr(<<"1"," ","E","l","m">>), JStr(<<"1"," "," ","e","l","m">>), JStr(<<"9","9">>)},
      city    : {JStr(<<"A","u">>), JStr(<<"a",".","u">>), JStr(<<"Z">>)},
      results : UNION {[1..n -> FuzzyItems] : n \in 0..MaxResults} ]

Unset == [mode |-> "unset"]

\* the handler's variables, unused while a function is checked on its own
Parked ==
    /\ env = [preferApi |-> FALSE, hasKeys |-> FALSE]
    /\ query = <<>>
    /\ source = <<>>
    /\ pc = <<>>
    /\ lk = <<>>
    /\ attempts = <<>>
    /\ last = <<>>
    /\ calls = <<>>
    /\ browser = <<>>
    /\ doc = <<>>
    /\ res = <<>>

ScorerInit ==
    /\ Parked
    /\ arg \in StrictArgs \cup FuzzyArgs
    /\ ret = Unset

\* one payload validated as in the lookup's try block
StrictApply ==
    /\ arg.mode = "strict"
    /\ ret = Unset
    /\ ret' = [mode |-> "strict",
               verdict |-> StrictVerdict(PayloadOf(arg), Want(arg.city, arg.state, arg.zip))]
    /\ UNCHANGED <<env, query, source, pc, lk, attempts, last, calls, browser, doc, res, arg>>

\* one call of pickBestSearchResult
FuzzyApply ==
    /\ arg.mode = "fuzzy"
    /\ ret = Unset
    /\ ret' = [mode |-> "fuzzy",
               picked |-> pickBestSearchResult(JArr(arg.results), arg.address, arg.city)]
    /\ UNCHANGED <<env, query, source, pc, lk, attempts, last, calls, browser, doc, res, arg>>

ScorerNext == StrictApply \/ FuzzyApply

ScorerSpec == ScorerInit /\ [][ScorerNext]_vars

(***************************************************************************)
(* Text comparisons named in the claims, defined apart from the code's     *)
(***************************************************************************)
SameLetter(c, d) ==
    c = d \/ \E k \in 1..Len(UpperCase) : {c, d} = {UpperCase[k], LowerCase[k]}

SameIgnoringCase(x, y) ==
    Len(x) = Len(y) /\ \A i \in 1..Len(x) : SameLetter(x[i], y[i])

\* s without its leading and trailing whitespace
OuterTrimmed(s) ==
    LET idx == {i \in 1..Len(s) : ~IsSpace(s[i])}
    IN  IF idx = {} THEN <<>>
        ELSE SubSeq(s, CHOOSE a \in idx : \A b \in idx : a <= b,
                       CHOOSE a \in idx : \A b \in idx : a >= b)

\* the text a field carries; an absent field carries none
TextOf(x) == IF Truthy(x) THEN StringOf(x) ELSE <<>>

TrimmedEqualAnyCase(x, y) ==
    SameIgnoringCase(OuterTrimmed(TextOf(x)), OuterTrimmed(TextOf(y)))

TrimmedEqualExact(x, y) == OuterTrimmed(TextOf(x)) = OuterTrimmed(TextOf(y))

Present(x) == x \notin {Null, Undefined, JNum(0), JStr(<<>>)}

IsLetterOrDigit(c) == IsUpper(c) \/ IsLower(c) \/ IsDigit(c)

\* s reduced to its letters and digits
AlnumOnly(s) == SelectSeq(s, IsLetterOrDigit)

\* s reduced to its letters, digits and underscores
WordOnly(s) == SelectSeq(s, LAMBDA c : IsLetterOrDigit(c) \/ c = "_")

\* whether y occurs in x, case ignored
ContainsAnyCase(x, y) ==
    \E k \in 0..(Len(x) - Len(y)) : SameIgnoringCase(SubSeq(x, k + 1, k + Len(y)), y)

StrictDone == ret.mode = "strict"

FuzzyDone == ret.mode = "fuzzy"

\* the conditions of strict acceptance other than the ZIP comparison
C4_OtherConditions ==
    /\ TrimmedEqualAnyCase(arg.candCity, arg.city)
    /\ TrimmedEqualAnyCase(arg.candState, arg.state)
    /\ (Present(arg.candIds.zestimate) \/ Present(arg.candIds.zpid))

C4_QueryZipEmpty == OuterTrimmed(TextOf(arg.zip)) = <<>>

\* C4 (amended): a strict candidate is acceptable exactly when its city and its
\* state equal the query's by case-insensitive trimmed equality, the query ZIP
\* is empty or equals the candidate's ZIP by trimmed, case-sensitive equality,
\* and a valuation or a property identifier is present; never by substring.
C4_StrictAcceptance ==
    StrictDone =>
        (ret.verdict.acceptable <=>
            /\ C4_OtherConditions
            /\ (C4_QueryZipEmpty \/ TrimmedEqualExact(arg.candZip, arg.zip)))

\* C4 as stated: the ZIP comparison too is case-insensitive trimmed equality.
C4_AsStated ==
    StrictDone =>
        (ret.verdict.acceptable <=>
            /\ C4_OtherConditions
            /\ (C4_QueryZipEmpty \/ TrimmedEqualAnyCase(arg.candZip, arg.zip)))

\* a candidate accepted with its city differing in case and outer space, and a
\* numeric ZIP equal to the query's text
C4_Witness ==
    /\ StrictDone
    /\ ret.verdict.acceptable
    /\ arg.city = JStr(<<" ", "A">>)
    /\ arg.candCity = JStr(<<"a", " ">>)
    /\ arg.zip = JStr(<<"7">>)
    /\ arg.candZip = JNum(7)

C5_ResultText(i) == TextOf(Get(arg.results[i], "address"))

C5_FuzzyContains(i, target, Keep(_)) ==
    ContainsAnyCase(Keep(C5_ResultText(i)), Keep(TextOf(target)))

\* C5 (amended): fuzzy-mode comparisons are made on lowercased values from which
\* every character other than a letter, a digit or an underscore is removed;
\* strict-mode comparisons are made on lowercased, trimmed values, so that
\* inner punctuation and whitespace stay significant there.
C5_Normalization ==
    /\ FuzzyDone =>
          /\ ret.picked.score >= 2 <=>
                 \E i \in 1..Len(arg.results) : C5_FuzzyContains(i, arg.address, WordOnly)
          /\ ret.picked.score \in {1, 3} =>
                 \E i \in 1..Len(arg.results) : C5_FuzzyContains(i, arg.city, WordOnly)
    /\ StrictDone /\ ret.verdict.acceptable =>
          /\ TrimmedEqualAnyCase(arg.candCity, arg.city)
          /\ TrimmedEqualAnyCase(arg.candState, arg.state)

\* C5 as stated: both modes compare values with every non-alphanumeric
\* character removed.
C5_AsStated ==
    /\ FuzzyDone =>
          (ret.picked.score >= 2 <=>
               \E i \in 1..Len(arg.results) : C5_FuzzyContains(i, arg.address, AlnumOnly))
    /\ StrictDone =>
          (ret.verdict.acceptable <=>
               /\ SameIgnoringCase(AlnumOnly(TextOf(arg.candCity)), AlnumOnly(TextOf(arg.city)))
               /\ SameIgnoringCase(AlnumOnly(TextOf(arg.candState)), AlnumOnly(TextOf(arg.state)))
               /\ \/ AlnumOnly(TextOf(arg.zip)) = <<>>
                  \/ SameIgnoringCase(AlnumOnly(TextOf(arg.candZip)), AlnumOnly(TextOf(arg.zip)))
               /\ (Present(arg.candIds.zestimate) \/ Present(arg.candIds.zpid)))

\* a result found although query and result differ in case, spacing and punctuation
C5_Witness ==
    /\ FuzzyDone
    /\ arg.address = JStr(<<"1", " ", " ", "e", "l", "m">>)
    /\ Len(arg.results) = 1
    /\ C5_ResultText(1) = <<"1", " ", "E", "L", "M", ".">>
    /\ ret.picked.score = 2

C6_Score(i) ==
    (IF Includes(norm(Get(arg.results[i], "address")), norm(arg.address)) THEN 2 ELSE 0)
  + (IF Includes(norm(Get(arg.results[i], "address")), norm(arg.city)) THEN 1 ELSE 0)

\* C6: a result scores 2 if its normalized address contains the normalized
\* query address, plus 1 if it contains the normalized query city; the result
\* returned has the maximum score, the earliest one on ties, and a non-empty
\* list always yields a result, even at score 0.
C6_PickIsEarliestMaximum ==
    FuzzyDone =>
        LET n == Len(arg.results)
            p == ret.picked
        IN  IF n = 0 THEN p.best = Null
            ELSE /\ p.index \in 1..n
                 /\ p.best = arg.results[p.index]
                 /\ p.score = C6_Score(p.index)
                 /\ \A k \in 1..n : C6_Score(k) <= p.score
                 /\ \A k \in 1..(p.index - 1) : C6_Score(k) < p.score

\* two results tie at score 0 and the first is returned
C6_Witness ==
    /\ FuzzyDone
    /\ Len(arg.results) >= 2
    /\ ret.picked.score = 0
    /\ ret.picked.index = 1
    /\ ret.picked.best = arg.results[1]
    /\ arg.results[2] # arg.results[1]

(***************************************************************************)
(* The lookup and the route: what the claims name                          *)
(***************************************************************************)
VariantsOf(r) == generateAddressVariants(query[r].address)

\* the pairs <<variant, shape>>, every shape of a variant before the next variant
VariantMajor(n) ==
    [k \in 1..(n * NumShapes) |-> <<((k - 1) \div NumShapes) + 1, ((k - 1) % NumShapes) + 1>>]

PositionOf(pair) == (pair[1] - 1) * NumShapes + pair[2]

\* the pairs of the variants V for which the provider returns a record that
\* strict validation accepts
AcceptedAmong(r, V) ==
    LET q == query[r]
    IN  {p \in Range(VariantMajor(Len(V))) :
            /\ Hit(source[r], V[p[1]], p[2])
            /\ StrictVerdict(source[r].data, Want(q.city, q.state, q.zip)).acceptable}

AcceptedPairs(r) == AcceptedAmong(r, VariantsOf(r))

IsEmptyResult(p) ==
    /\ p.status = 200
    /\ p.ok = TRUE
    /\ "note" \in DOMAIN p
    /\ p.note # ""
    /\ p.zpid = Null
    /\ p.zestimate = Null
    /\ p.property_url = Null
    /\ p.match_confidence = 0

\* C1: within a lookup the attempts are issued in variant-major order, the
\* first variant being the original address, tried against every shape before
\* any other variant; each lookup of a request starts the order again.
C1_VariantMajorOrder ==
    \A r \in DOMAIN pc :
        attempts[r] # <<>> =>
            LET V == lk[r].addrs
                E == VariantMajor(Len(V))
            IN  /\ \A k \in 1..Len(attempts[r]) : attempts[r][k] = E[((k - 1) % Len(E)) + 1]
                /\ V[1] = Trim(query[r].address.v)

\* every shape has been tried with the original address, and the second
\* variant is under way
C1_Witness ==
    \E r \in DOMAIN pc :
        /\ Len(attempts[r]) = NumShapes + 2
        /\ attempts[r][NumShapes] = <<1, NumShapes>>
        /\ attempts[r][NumShapes + 2] = <<2, 2>>

\* C2: a lookup succeeds exactly when some pair yields an acceptable candidate;
\* it then returns the candidate of the first such pair in enumeration order,
\* and no attempt is issued after that pair.
C2_FirstAcceptableWins ==
    \A r \in DOMAIN pc : \A k \in 1..Len(calls[r]) :
        LET c   == calls[r][k]
            acc == AcceptedAmong(r, lk[r].addrs)
        IN  ~c.threw =>
              /\ c.ok <=> acc # {}
              /\ c.ok =>
                   /\ c.pair \in acc
                   /\ \A p \in acc : PositionOf(c.pair) <= PositionOf(p)
                   /\ k = Len(calls[r])
                   /\ attempts[r][Len(attempts[r])] = c.pair
                   /\ res[r] # <<>>
                   /\ res[r][Len(res[r])].tried =
                          [path |-> EndpointShapes[c.pair[2]].path,
                           addr |-> lk[r].addrs[c.pair[1]]]
                   /\ res[r][Len(res[r])].zpid = Get(source[r].data, "zpid")

\* "12 Elm St" is found at a provider that knows only "12 Elm Street"
C2_Witness ==
    \E r \in DOMAIN pc :
        /\ query[r].address = JStr(sElmSt)
        /\ source[r].addr = sElmStreet
        /\ calls[r] # <<>>
        /\ calls[r][Len(calls[r])].ok
        /\ calls[r][Len(calls[r])].pair[1] > 1
        /\ Len(attempts[r]) > NumShapes

\* C3: an attempt that times out, fails in transport, answers with a
\* non-success status or with an unparsable body is handled as one that gave
\* no candidate: the next pair in order is issued, or, after the last pair,
\* the lookup returns "no match"; the lookup never raises for it.
C3_FailuresSkip ==
    [][\A r \in DOMAIN pc :
         LET f == lk[r]
             E == VariantMajor(Len(f.addrs))
             k == PositionOf(<<f.i, f.j>>)
             settled == /\ pc[r] \in {"api_fetch", "api_json"}
                        /\ pc'[r] # "api_json"
                        /\ ~(Len(calls'[r]) > Len(calls[r]) /\ calls'[r][Len(calls'[r])].ok)
         IN  settled =>
               IF k < Len(E)
               THEN /\ attempts'[r] = Append(attempts[r], E[k + 1])
                    /\ pc'[r] = "api_fetch"
                    /\ calls'[r] = calls[r]
                    /\ res'[r] = res[r]
               ELSE /\ attempts'[r] = attempts[r]
                    /\ calls'[r] = Append(calls[r], [site |-> f.site, ok |-> FALSE,
                                                     pair |-> NoPair, threw |-> FALSE])
                    /\ pc'[r] \in {"launch", "closing"}
                    /\ \/ res'[r] = res[r]
                       \/ /\ Len(res'[r]) = Len(res[r]) + 1
                          /\ IsEmptyResult(res'[r][Len(res'[r])])
      ]_vars

\* an attempt timed out and the lookup is suspended on the next fetch
C3_Witness ==
    \E r \in DOMAIN pc :
        /\ last[r] = "timeout"
        /\ pc[r] = "api_fetch"
        /\ Len(attempts[r]) >= 2

IsApiResult(p) == p.ok /\ "tried" \in DOMAIN p

IsDocResult(p) == p.ok /\ p.source = "searchUrl" /\ "note" \notin DOMAIN p

\* C7: a result from the document path has confidence 90 with a valuation and
\* max(20, fuzzyScore x 10) without; a result from the API path has confidence
\* 85 with a valuation and 60 without.
C7_ConfidencePolicy ==
    \A r \in DOMAIN pc : \A k \in 1..Len(res[r]) :
        LET p == res[r][k]
        IN  /\ IsApiResult(p) =>
                 p.match_confidence = (IF Present(p.zestimate) THEN 85 ELSE 60)
            /\ IsDocResult(p) =>
                 p.match_confidence =
                     (IF Present(p.zestimate) THEN 90
                      ELSE IF doc[r].score * 10 > 20 THEN doc[r].score * 10 ELSE 20)

\* a document result without a valuation whose fuzzy score lifts the confidence
C7_Witness ==
    \E r \in DOMAIN pc :
        /\ res[r] # <<>>
        /\ IsDocResult(res[r][1])
        /\ res[r][1].zestimate = Null
        /\ doc[r].score = 3
        /\ res[r][1].match_confidence = 30

\* the query passed validation, the provider has nothing acceptable for it (or
\* is not configured) and no search result was selected
C8_NoSourceAccepts(r) ==
    /\ query[r].authorized
    /\ ~MissingRequired(query[r])
    /\ doc[r] = NoDoc
    /\ (~env.hasKeys \/ AcceptedPairs(r) = {})

\* C8 (amended): when no source accepts any pair and no step of the resolution
\* raises an error, the response is exactly the successful empty result; when
\* a step raises, the response is ok false with status 200; the status is
\* never an error status.
C8_EmptyResultUnlessRaised ==
    \A r \in DOMAIN pc :
        \/ res[r] = <<>>
        \/ /\ Len(res[r]) = 1
           /\ res[r][1].status = 200
           /\ res[r][1].ok => IsEmptyResult(res[r][1])
           /\ ~res[r][1].ok => res[r][1] = FailurePayload
        \/ ~C8_NoSourceAccepts(r)

\* C8 as stated: the response is the successful empty result, never ok false.
C8_AsStated ==
    \A r \in DOMAIN pc :
        \/ res[r] = <<>>
        \/ /\ Len(res[r]) = 1
           /\ IsEmptyResult(res[r][1])
        \/ ~C8_NoSourceAccepts(r)

\* every pair was tried in vain and the request ended with the empty result
C8_Witness ==
    \E r \in DOMAIN pc :
        /\ pc[r] = "done"
        /\ env.hasKeys
        /\ Len(res[r]) = 1
        /\ IsEmptyResult(res[r][1])
        /\ Len(attempts[r]) > NumShapes
        /\ Len(attempts[r]) >= NumShapes * Len(VariantsOf(r))
        /\ C8_NoSourceAccepts(r)

\* C9: with API credentials configured, a request ends with the empty result
\* only if every (variant, shape) attempt was issued and none was acceptable.
C9_NoMatchOnlyAfterExhaustion ==
    \A r \in DOMAIN pc :
        env.hasKeys /\ res[r] # <<>> /\ IsEmptyResult(res[r][Len(res[r])]) =>
            /\ AcceptedPairs(r) = {}
            /\ Range(VariantMajor(Len(VariantsOf(r)))) \subseteq Range(attempts[r])

EmptyAfterTrimming(x) == OuterTrimmed(TextOf(x)) = <<>>

\* C10: a query whose address, city or state is missing or empty after trimming
\* is answered with an input error at once; no API attempt is issued and no
\* browser is launched for it.
C10_BlankFieldsRejected ==
    \A r \in DOMAIN pc :
        /\ query[r].authorized
        /\ pc[r] # "received"
        /\ \/ EmptyAfterTrimming(query[r].address)
           \/ EmptyAfterTrimming(query[r].city)
           \/ EmptyAfterTrimming(query[r].state)
        => /\ pc[r] = "done"
           /\ Len(res[r]) = 1
           /\ res[r][1].status = 400
           /\ ~res[r][1].ok
           /\ attempts[r] = <<>>
           /\ browser[r] = "none"

(***************************************************************************)
(* Responses, the browser and failures                                     *)
(***************************************************************************)
Finished(r) == pc[r] \in {"done", "rejected"}

\* C11: every request receives exactly one response: a handler never sends
\* two, and a handler that has finished has sent one.
C11_ExactlyOneResponse ==
    \A r \in DOMAIN pc :
        /\ Len(res[r]) <= 1
        /\ Finished(r) => Len(res[r]) = 1

\* C12: once the browser has been launched, the handler does not finish before
\* browser.close() has settled; close settling, with or without a failure,
\* leaves the response as it was and ends the handler normally.
C12_BrowserClosedOnExit ==
    [][\A r \in DOMAIN pc :
         /\ Finished(r)' => browser'[r] # "open"
         /\ browser[r] = "open" /\ browser'[r] # "open" =>
                /\ pc[r] = "closing"
                /\ Len(res[r]) = 1
                /\ res'[r] = res[r]
                /\ pc'[r] = "done"
      ]_vars

\* a document result was sent, then closing the browser failed
C12_Witness ==
    \E r \in DOMAIN pc :
        /\ pc[r] = "done"
        /\ browser[r] = "close-failed"
        /\ Len(res[r]) = 1
        /\ IsDocResult(res[r][1])

\* C13: a failure raised during resolution never escapes the handler; it is
\* answered with ok false and an error message.
C13_FailuresCaught ==
    \A r \in DOMAIN pc :
        /\ pc[r] # "rejected"
        /\ \A k \in 1..Len(calls[r]) :
               calls[r][k].threw =>
                   /\ res[r] # <<>>
                   /\ ~res[r][Len(res[r])].ok
                   /\ "error" \in DOMAIN res[r][Len(res[r])]

\* C17: a lookup whose address is empty or whitespace-only has no variants,
\* issues no attempt and returns "no match", which the route reports as no
\* matching record.
C17_BlankAddressNoAttempt ==
    \A r \in DOMAIN pc :
        EmptyAfterTrimming(query[r].address) =>
            /\ attempts[r] = <<>>
            /\ \A k \in 1..Len(calls[r]) :
                   ~calls[r][k].threw =>
                       /\ lk[r].addrs = <<>>
                       /\ ~calls[r][k].ok
                       /\ calls[r][k].site = "fallback" =>
                              /\ res[r] # <<>>
                              /\ IsEmptyResult(res[r][Len(res[r])])
                              /\ res[r][Len(res[r])].note = NoteNoApiRecord

\* a whitespace-only address went through the lookup and was reported unmatched
C17_Witness ==
    \E r \in DOMAIN pc :
        /\ query[r].address = JStr(Blank)
        /\ Len(calls[r]) >= 1
        /\ calls[r][Len(calls[r])].site = "fallback"
        /\ ~calls[r][Len(calls[r])].ok
        /\ ~calls[r][Len(calls[r])].threw
        /\ attempts[r] = <<>>
        /\ res[r] # <<>>
        /\ res[r][1].note = NoteNoApiRecord

InFlight(r) == pc[r] \in {"api_fetch", "api_json"}

\* C19: within a lookup one attempt at most is in flight: a step issues one
\* attempt at most, and only at the start of a lookup or when the attempt in
\* flight resolves in that step.
C19_AttemptsSequential ==
    [][\A r \in DOMAIN pc :
         attempts'[r] # attempts[r] =>
             /\ Len(attempts'[r]) = Len(attempts[r]) + 1
             /\ SubSeq(attempts'[r], 1, Len(attempts[r])) = attempts[r]
             /\ InFlight(r)'
             /\ lk'[r].i = attempts'[r][Len(attempts'[r])][1]
             /\ lk'[r].j = attempts'[r][Len(attempts'[r])][2]
             /\ InFlight(r) => <<lk[r].i, lk[r].j>> # <<lk'[r].i, lk'[r].j>>
      ]_vars

\* the second attempt is in flight after the first one failed
C19_Witness ==
    \E r \in DOMAIN pc :
        /\ Len(attempts[r]) = 2
        /\ pc[r] = "api_json"
        /\ last[r] = "response"

\* C20: within one request each (variant, shape) pair is fetched once at most.
C20_NoPairFetchedTwice ==
    \A r \in DOMAIN pc :
        \A k, m \in 1..Len(attempts[r]) : attempts[r][k] = attempts[r][m] => k = m

(***************************************************************************)
(* generateAddressVariants on its own: addresses made of a few words       *)
(***************************************************************************)
MaxWords == 3

\* a house number, table entries in several cases, a word that only contains
\* one, directional tokens
AddressWords ==
    { <<"1","2">>, <<"S","t">>, <<"s","T">>, <<"S","t","r","e","e","t">>, <<"S","t","o","n","e">>, <<"N">>, <<"A","v","e">>, <<"s","w">> }

RECURSIVE JoinWords(_)
JoinWords(ws) ==
    IF ws = <<>> THEN <<>>
    ELSE IF Len(ws) = 1 THEN ws[1]
    ELSE ws[1] \o <<" ">> \o JoinWords(Tail(ws))

VariantArgs ==
    [ mode   : {"variants"},
      words  : UNION {[1..n -> AddressWords] : n \in 0..MaxWords},
      padded : BOOLEAN ]

\* the address sent: the words joined by single spaces, with or without
\* whitespace around them
AddressOf(a) ==
    JStr(IF a.padded THEN <<" ">> \o JoinWords(a.words) \o <<" ", " ">>
         ELSE JoinWords(a.words))

VariantInit ==
    /\ Parked
    /\ arg \in VariantArgs
    /\ ret = Unset

\* one call of generateAddressVariants; the results of its two abbreviation
\* passes are kept beside its output
VariantApply ==
    /\ arg.mode = "variants"
    /\ ret = Unset
    /\ LET base == Trim(StringOf(Or(AddressOf(arg), JStr(<<>>))))
       IN  ret' = [mode     |-> "variants",
                   full     |-> swapWords(base, abbrToFull),
                   abbr     |-> swapWords(base, fullToAbbr),
                   variants |-> generateAddressVariants(AddressOf(arg))]
    /\ UNCHANGED <<env, query, source, pc, lk, attempts, last, calls, browser, doc, res, arg>>

VariantNext == VariantApply

VariantSpec == VariantInit /\ [][VariantNext]_vars

VariantDone == ret.mode = "variants"

\* C14: for a non-empty address the first variant is the trimmed input and no
\* two variants are equal.
C14_FirstIsTrimmedNoDuplicates ==
    VariantDone /\ ~EmptyAfterTrimming(AddressOf(arg)) =>
        /\ ret.variants # <<>>
        /\ ret.variants[1] = OuterTrimmed(AddressOf(arg).v)
        /\ \A i, j \in 1..Len(ret.variants) : ret.variants[i] = ret.variants[j] => i = j

\* a padded "12 St": the abbreviating pass gives the address back, and it is
\* listed once
C14_Witness ==
    /\ VariantDone
    /\ arg.padded
    /\ arg.words = << <<"1","2">>, <<"S","t">> >>
    /\ ret.abbr = ret.variants[1]
    /\ Len(ret.variants) = 6

\* the word a pass puts in the place of w: the other form of the table entry
\* that w is, case ignored, or w itself
C15_WordSwapped(w, from, to) ==
    IF \E i \in DOMAIN AbbrPairs : SameIgnoringCase(w, AbbrPairs[i][from])
    THEN AbbrPairs[CHOOSE i \in DOMAIN AbbrPairs : SameIgnoringCase(w, AbbrPairs[i][from])][to]
    ELSE w

C15_Pass(ws, from, to) == JoinWords([i \in DOMAIN ws |-> C15_WordSwapped(ws[i], from, to)])

\* C15: each abbreviation pass replaces every whole-word occurrence of a table
\* entry, in any case, as first word, as last word and next to another
\* replaced word, and leaves every other word as it is.
C15_EveryWholeWordReplaced ==
    VariantDone =>
        /\ ret.full = C15_Pass(arg.words, 1, 2)
        /\ ret.abbr = C15_Pass(arg.words, 2, 1)

C16_IsDirectional(w) ==
    \E d \in DirectionalTokens : SameIgnoringCase(w, d)

C16_Inserted(ws, d) == JoinWords(<<ws[1], d>> \o Tail(ws))

\* C16: an address without a directional word that begins with a numeric house
\* number followed by a street name gets four more variants, with E, W, N, S
\* in that order after the house number; an address with a directional word
\* gets no directional variant.
C16_DirectionalVariants ==
    VariantDone =>
        LET ws == arg.words
            n  == Len(ret.variants)
            hasDir == \E i \in DOMAIN ws : C16_IsDirectional(ws[i])
        IN  /\ ~hasDir /\ Len(ws) >= 2 /\ (\A i \in DOMAIN ws[1] : IsDigit(ws[1][i])) =>
                  /\ n >= 5
                  /\ SubSeq(ret.variants, n - 3, n) =
                         << C16_Inserted(ws, <<"E">>), C16_Inserted(ws, <<"W">>),
                            C16_Inserted(ws, <<"N">>), C16_Inserted(ws, <<"S">>) >>
                  /\ \A k \in 1..(n - 4) : ret.variants[k] \in {JoinWords(ws), ret.full, ret.abbr}
            /\ hasDir => Range(ret.variants) \subseteq {JoinWords(ws), ret.full, ret.abbr}

\* "12 Stone" gets its four directional variants
C16_Witness ==
    /\ VariantDone
    /\ arg.words = << <<"1","2">>, <<"S","t","o","n","e">> >>
    /\ Len(ret.variants) = 5
    /\ ret.variants[2] = <<"1","2"," ","E"," ","S","t","o","n","e">>
    /\ ret.variants[5] = <<"1","2"," ","S"," ","S","t","o","n","e">>

(***************************************************************************)
(* Path extraction on its own (tryPaths, pick)                             *)
(***************************************************************************)
MaxPaths == 2

PathPool == { <<"a", "b">>, <<"c">>, <<"a">>, <<"a", "b", "c">> }

PathLeaves == {Undefined, Null, JNum(0), JNum(5), JStr(<<>>)}

PathInner ==
    PathLeaves \cup {JObj(<< <<"b", z>> >>) :
                        z \in {Undefined, Null, JNum(0), JNum(7),
                               JObj(<< <<"c", JNum(9)>> >>)}}

PathRoots ==
    {JNum(5)} \cup
    {JObj(<< <<"a", x>>, <<"c", y>> >>) :
        x \in PathInner, y \in {Undefined, Null, JNum(0), JNum(5)}}

PathArgs ==
    [ mode  : {"paths"},
      obj   : PathRoots,
      paths : UNION {[1..n -> PathPool] : n \in 0..MaxPaths} ]

PathInit ==
    /\ Parked
    /\ arg \in PathArgs
    /\ ret = Unset

\* one call of tryPaths and one of pick, on the same object and paths
PathApply ==
    /\ arg.mode = "paths"
    /\ ret = Unset
    /\ ret' = [mode     |-> "paths",
               tryPaths |-> tryPaths(arg.obj, arg.paths, 1),
               pick     |-> pick(arg.obj, arg.paths, 1)]
    /\ UNCHANGED <<env, query, source, pc, lk, attempts, last, calls, browser, doc, res, arg>>

PathNext == PathApply

PathSpec == PathInit /\ [][PathNext]_vars

PathDone == ret.mode = "paths"

\* the value at the end of the path: each segment must be a key of the object
\* reached so far, otherwise there is none
C18_PathValue(obj, path) ==
    LET at[n \in 0..Len(path)] ==
            IF n = 0 THEN obj
            ELSE IF at[n - 1].t = "object"
                    /\ \E i \in DOMAIN at[n - 1].v : at[n - 1].v[i][1] = path[n]
                 THEN LET o == at[n - 1].v
                      IN  o[CHOOSE i \in DOMAIN o : o[i][1] = path[n]][2]
                 ELSE Undefined
    IN  at[Len(path)]

C18_Succeeds(k) == C18_PathValue(arg.obj, arg.paths[k]) \notin {Null, Undefined}

\* C18: the paths are tried in the given order and the value of the first one
\* whose whole walk ends in a value other than null and undefined is returned;
\* a missing intermediate makes a path fail without an error, and when every
\* path fails the result is absent.
C18_FirstSuccessfulPath ==
    PathDone =>
        IF \E k \in DOMAIN arg.paths : C18_Succeeds(k)
        THEN LET first == CHOOSE k \in DOMAIN arg.paths :
                              /\ C18_Succeeds(k)
                              /\ \A m \in 1..(k - 1) : ~C18_Succeeds(m)
             IN  /\ ret.tryPaths = C18_PathValue(arg.obj, arg.paths[first])
                 /\ ret.pick = C18_PathValue(arg.obj, arg.paths[first])
        ELSE /\ ret.tryPaths = Undefined
             /\ ret.pick = Null

\* paths "a.b" then "c" on an object whose a is a number and whose c is 0:
\* the first path fails at the missing intermediate, the second one gives 0
C18_Witness ==
    /\ PathDone
    /\ arg.paths = << <<"a", "b">>, <<"c">> >>
    /\ arg.obj = JObj(<< <<"a", JNum(5)>>, <<"c", JNum(0)>> >>)
    /\ ret.tryPaths = JNum(0)
    /\ ret.pick = JNum(0)

(***************************************************************************)
(* One attempt after another, with its timer: lines 234-244 and the catch  *)
(***************************************************************************)
MaxAttempts == 2

\* how the provider behaves on one attempt: it refuses the connection, never
\* answers, answers with a non-success status, sends headers and then never
\* the body, sends a body that does not parse, or sends a body
SourceBehaviours == {"refuse", "stall", "status", "stall-body", "malformed", "body"}

AttemptArgs ==
    [ mode       : {"attempts"},
      behaviours : UNION {[1..n -> SourceBehaviours] : n \in 1..MaxAttempts} ]

\* k: the attempt the loop is at; phase: where it is suspended;
\* timers: the attempts whose setTimeout is still pending
AttemptInit ==
    /\ Parked
    /\ arg \in AttemptArgs
    /\ ret = [mode |-> "attempts", k |-> 1, phase |-> "start", timers |-> {}]

AttemptUnchanged ==
    UNCHANGED <<env, query, source, pc, lk, attempts, last, calls, browser, doc, res, arg>>

\* the loop goes on to the attempt after k, or to the return after the loops
NextAttempt(timers) ==
    IF ret.k < Len(arg.behaviours)
    THEN [ret EXCEPT !.k = ret.k + 1, !.phase = "start", !.timers = timers]
    ELSE [ret EXCEPT !.phase = "returned", !.timers = timers]

\* new AbortController(); setTimeout(() => ac.abort(), 20000); fetch(url, ...)
ArmAndFetch ==
    /\ arg.mode = "attempts"
    /\ ret.phase = "start"
    /\ ret' = [ret EXCEPT !.phase = "fetch", !.timers = ret.timers \cup {ret.k}]
    /\ AttemptUnchanged

\* fetch resolves with a response: clearTimeout(t), then the status test
FetchResolves ==
    /\ arg.mode = "attempts"
    /\ ret.phase = "fetch"
    /\ arg.behaviours[ret.k] \in {"status", "stall-body", "malformed", "body"}
    /\ ret' = IF arg.behaviours[ret.k] = "status"
              THEN NextAttempt(ret.timers \ {ret.k})
              ELSE [ret EXCEPT !.phase = "body", !.timers = ret.timers \ {ret.k}]
    /\ AttemptUnchanged

\* fetch rejects with a transport error: the catch block, clearTimeout skipped
FetchRejects ==
    /\ arg.mode = "attempts"
    /\ ret.phase = "fetch"
    /\ arg.behaviours[ret.k] = "refuse"
    /\ ret' = NextAttempt(ret.timers)
    /\ AttemptUnchanged

\* a pending timer fires: ac.abort(); the fetch of that attempt, if it is still
\* awaited, rejects and the catch block is entered
TimerFires ==
    /\ arg.mode = "attempts"
    /\ \E j \in ret.timers :
           /\ (j = ret.k /\ ret.phase = "fetch") => arg.behaviours[j] = "stall"
           /\ ret' = IF j = ret.k /\ ret.phase = "fetch"
                     THEN NextAttempt(ret.timers \ {j})
                     ELSE [ret EXCEPT !.timers = ret.timers \ {j}]
    /\ AttemptUnchanged

\* resp.json() settles, with a body or with a parse error
BodySettles ==
    /\ arg.mode = "attempts"
    /\ ret.phase = "body"
    /\ arg.behaviours[ret.k] \in {"malformed", "body"}
    /\ ret' = NextAttempt(ret.timers)
    /\ AttemptUnchanged

AttemptNext == ArmAndFetch \/ FetchResolves \/ FetchRejects \/ TimerFires \/ BodySettles

AttemptSpec == AttemptInit /\ [][AttemptNext]_vars

\* C21: an attempt is covered by its timer for as long as it is in flight, the
\* reading of the body included, so that a stalled attempt is cancelled and the
\* next one can start; once it has resolved, no timer of it is left pending.
C21_TimeoutCoversAttempt ==
    ret.mode = "attempts" =>
        /\ ret.phase \in {"fetch", "body"} => ret.k \in ret.timers
        /\ \A j \in ret.timers : j = ret.k /\ ret.phase \in {"fetch", "body"}

(***************************************************************************)
(* Two requests in flight, against sources whose answers are fixed: each    *)
(* source answers every await of its request in one way only, so a request  *)
(* run alone has one outcome                                                *)
(***************************************************************************)
PairRequests == {1, 2}

ElmListing ==
    JObj(<< <<"address", JStr(<<"1","2"," ","E","l","m"," ","S","t",","," ","A","u","s","t","i","n">>)>>,
            <<"detailUrl", JStr(<<"/","a">>)>> >>)

\* a source together with the way each further await settles: misses of the
\* provider, chromium.launch, the two page reads, browser.close
Script(src, miss, launch, searchBlob, detailBlob, close) ==
    [addr |-> src.addr, shapes |-> src.shapes, data |-> src.data,
     miss |-> miss, launch |-> launch, searchBlob |-> searchBlob,
     detailBlob |-> detailBlob, close |-> close]

HitScript ==
    Script([addr |-> sElmStreet, shapes |-> {3, 5},
              data |-> ApiPayload(JStr(<<" ","a","u","s","t","i","n">>), JNum(450000),
                                  JStr(<<"7","7">>))],
             "timeout", TRUE, [kind |-> "json", root |-> NextDataRoot(<<ElmListing>>)],
             [kind |-> "json", root |-> GdpRoot(<< <<"zpid", JStr(<<"7","7">>)>> >>)], TRUE)

\* no record at the provider and no data blob on the search page
NoDataScript == Script(NoRecord, "status", TRUE, [kind |-> "none"], [kind |-> "none"], FALSE)

\* no record at the provider, a listing and a valuation in the pages
PageScript ==
    Script(NoRecord, "response", TRUE, [kind |-> "json", root |-> NextDataRoot(<<ElmListing>>)],
           [kind |-> "json", root |-> GdpRoot(<< <<"zpid", JNum(77)>>,
                                                 <<"zestimate", JNum(450000)>> >>)], TRUE)

\* the browser does not start
NoBrowserScript ==
    Script(NoRecord, "transport", FALSE, [kind |-> "throw"], [kind |-> "throw"], TRUE)

BlankAddressQuery == [BaseQuery EXCEPT !.address = JStr(Blank)]

\* the requests a pair is drawn from: a query and the script of its source
PairConfigs ==
    { <<BaseQuery, HitScript>>, <<BaseQuery, NoDataScript>>,
      <<BlankAddressQuery, PageScript>>, <<BlankAddressQuery, NoBrowserScript>> }

PairInit ==
    /\ env \in {[preferApi |-> TRUE, hasKeys |-> TRUE], [preferApi |-> FALSE, hasKeys |-> TRUE]}
    /\ \E cfg \in [PairRequests -> PairConfigs] :
           /\ query = [r \in PairRequests |-> cfg[r][1]]
           /\ source = [r \in PairRequests |-> cfg[r][2]]
    /\ pc = [r \in PairRequests |-> "received"]
    /\ lk = [r \in PairRequests |-> IdleFrame]
    /\ attempts = [r \in PairRequests |-> <<>>]
    /\ last = [r \in PairRequests |-> "none"]
    /\ calls = [r \in PairRequests |-> <<>>]
    /\ browser = [r \in PairRequests |-> "none"]
    /\ doc = [r \in PairRequests |-> NoDoc]
    /\ res = [r \in PairRequests |-> <<>>]
    /\ arg = <<>>
    /\ ret = <<>>

\* the one way the fetch of the current pair settles under the request's script
ScriptedFetch(r) ==
    IF source[r].miss \in FetchOutcomes(r) THEN source[r].miss ELSE "response"

\* the one body the provider sends: its record on a hit, an unparsable text otherwise
ScriptedBody(r) ==
    IF [parsed |-> FALSE] \in BodyOutcomes(r) THEN [parsed |-> FALSE]
    ELSE [parsed |-> TRUE, data |-> source[r].data]

\* one step of the handler of request r, its awaits settling as scripted
ScriptedStep(r) ==
    \/ Receive(r)
    \/ pc[r] = "api_fetch" /\ FetchSettleAs(r, ScriptedFetch(r))
    \/ pc[r] = "api_json" /\ JsonSettleAs(r, ScriptedBody(r))
    \/ LaunchSettleAs(r, source[r].launch)
    \/ SearchNavSettleAs(r, TRUE)
    \/ SearchBlobSettleAs(r, source[r].searchBlob)
    \/ DetailNavSettleAs(r, TRUE)
    \/ DetailBlobSettleAs(r, source[r].detailBlob)
    \/ CloseSettleAs(r, source[r].close)

PairNext == \E r \in PairRequests : ScriptedStep(r)

PairSpec == PairInit /\ [][PairNext]_vars

\* everything the handler of request r holds
OwnState(r) == <<pc[r], lk[r], attempts[r], last[r], calls[r], browser[r], doc[r], res[r]>>

\* while a handler works with its pages, the browser it launched is open
BrowserOwned ==
    \A r \in DOMAIN pc :
        pc[r] \in {"goto_search", "search_blob", "goto_detail", "detail_blob"}
            => browser[r] = "open"

\* two finished requests with the same query and the same source ended alike
TwinsAgree ==
    \A r1, r2 \in DOMAIN pc :
        (Finished(r1) /\ Finished(r2) /\ query[r1] = query[r2] /\ source[r1] = source[r2])
            => /\ res[r1] = res[r2]
               /\ attempts[r1] = attempts[r2]
               /\ calls[r1] = calls[r2]

\* C22: concurrent requests are independent: every step is the step of one
\* request and leaves all that the other request holds, its browser included,
\* as it was; a handler at its pages has its own browser open; and however two
\* requests with the same query and source are interleaved, both end with the
\* response and the attempt sequence of the run alone.
C22_RequestsIndependent ==
    [][ /\ \E r \in DOMAIN pc : \A o \in DOMAIN pc \ {r} : OwnState(o)' = OwnState(o)
        /\ BrowserOwned'
        /\ TwinsAgree' ]_vars

\* one request closes its browser while the other reads a page in its own
C22_Witness ==
    /\ pc[1] = "closing" /\ browser[1] = "open"
    /\ pc[2] = "search_blob" /\ browser[2] = "open"

\* ---- the same request made twice, the second after the first was answered ----
SeqInit == PairInit /\ query[1] = query[2] /\ source[1] = source[2]

\* the client sends its second request once the first has been answered
Turn(r) == r = 1 \/ res[1] # <<>> \/ Finished(1)

SeqNext ==
    \E r \in PairRequests :
        \/ Turn(r) /\ Receive(r)
        \/ Turn(r) /\ pc[r] = "api_fetch" /\ FetchSettleAs(r, ScriptedFetch(r))
        \/ Turn(r) /\ pc[r] = "api_json" /\ JsonSettleAs(r, ScriptedBody(r))
        \/ Turn(r) /\ LaunchSettleAs(r, source[r].launch)
        \/ Turn(r) /\ SearchNavSettleAs(r, TRUE)
        \/ Turn(r) /\ SearchBlobSettleAs(r, source[r].searchBlob)
        \/ Turn(r) /\ DetailNavSettleAs(r, TRUE)
        \/ Turn(r) /\ DetailBlobSettleAs(r, source[r].detailBlob)
        \/ Turn(r) /\ CloseSettleAs(r, source[r].close)

SeqSpec == SeqInit /\ [][SeqNext]_vars

\* C23: resolving the same query twice against the same sources gives the same
\* response, the same attempts and the same lookup outcomes both times.
C23_SameQuerySameResult ==
    (Finished(1) /\ Finished(2))
        => /\ res[2] = res[1]
           /\ attempts[2] = attempts[1]
           /\ [k \in DOMAIN calls[2] |-> calls[2][k].ok] = [k \in DOMAIN calls[1] |-> calls[1][k].ok]

\* the second call has run a lookup of its own and reached the first call's answer
C23_Witness ==
    /\ Finished(1) /\ Finished(2)
    /\ attempts[2] # <<>>
    /\ res[2] # <<>> /\ res[2] = res[1]
    /\ \E k \in DOMAIN calls[2] : calls[2][k].ok

\* a payload that carries no record, only the note that says why
NullRecordWithNote(p) ==
    /\ "note" \in DOMAIN p
    /\ p.zpid = Null /\ p.zestimate = Null /\ p.property_url = Null

\* C24: every response with ok true carries an integer confidence within
\* 0..100, and the confidence is 0 exactly when the response is the NoMatch
\* result, the null record with its note.
C24_ConfidenceRange ==
    \A r \in DOMAIN pc : \A k \in 1..Len(res[r]) :
        LET p == res[r][k]
        IN  p.ok => /\ p.match_confidence \in 0..100
                    /\ (p.match_confidence = 0) <=> NullRecordWithNote(p)

\* a request answered with a record that has no valuation, and confidence above 0
C24_Witness ==
    \E r \in DOMAIN pc : \E k \in 1..Len(res[r]) :
        /\ res[r][k].ok
        /\ ~NullRecordWithNote(res[r][k])
        /\ res[r][k].zestimate = Null
        /\ res[r][k].match_confidence > 0

(***************************************************************************)
(* extractZpidAndZestimate on its own: records holding a valuation and an   *)
(* identifier on a structured path, off every path, or both                 *)
(***************************************************************************)
sDollars == <<"$","4","5","0",",","0","0","0">>

\* numbers short of, within and beyond the digit range of the scan; texts with
\* digits among other characters and without digits
ValuationValues ==
    { JNum(0), JNum(123), JNum(450000), JNum(1234567890), JStr(sDollars), JStr(<<"a","b","c">>) }

IdentifierValues ==
    { JNum(0), JNum(77), JStr(<<"7","7">>), JStr(<<"z","-","7","7">>), JStr(<<"a","b","c">>) }

Absent == [t |-> "absent"]

\* the property `key: val`, or nothing when the record has no such property
Property(key, val) == IF val = Absent THEN <<>> ELSE << <<key, val>> >>

\* a record with the two fields on a structured path (at the top or under
\* homeInfo) and again under a key that no path goes through
ExtractRecord(a) ==
    LET onPath  == Property("zestimate", a.valuation) \o Property("zpid", a.identifier)
        offPath == Property("zestimate", a.strayValuation) \o Property("zpid", a.strayIdentifier)
    IN  JObj((IF a.nested THEN << <<"homeInfo", JObj(onPath)>> >> ELSE onPath)
             \o << <<"listing", JObj(offPath)>> >>)

ExtractArgs ==
    [ mode            : {"extract"},
      nested          : BOOLEAN,
      valuation       : ValuationValues \cup {Absent},
      identifier      : IdentifierValues \cup {Absent},
      strayValuation  : {JNum(450000), JNum(1234567890), JStr(sDollars), Absent},
      strayIdentifier : {JNum(77), JStr(<<"7","7">>), Absent} ]

ExtractInit ==
    /\ Parked
    /\ arg \in ExtractArgs
    /\ ret = Unset

ExtractApply ==
    /\ arg.mode = "extract"
    /\ ret = Unset
    /\ ret' = [mode |-> "extract", out |-> extractZpidAndZestimate(ExtractRecord(arg))]
    /\ UNCHANGED <<env, query, source, pc, lk, attempts, last, calls, browser, doc, res, arg>>

ExtractNext == ExtractApply

ExtractSpec == ExtractInit /\ [][ExtractNext]_vars

ExtractDone == ret.mode = "extract"

\* strip the non-digits and parse what is left as an integer
CoercedInteger(val) == StrToNat(StripNonDigit(StringOf(val)))

\* the value a structured path finds for the field, if any
PathValue(field) ==
    tryPaths(ExtractRecord(arg), IF field = "zestimate" THEN ZestimatePaths ELSE ZpidPaths, 1)

\* C25: a numeric field found by a structured path, valuation or identifier,
\* is returned as the integer left after stripping its non-digits, and a
\* coercion that yields 0 is not returned as a value.
C25_NumericCoercion ==
    ExtractDone =>
        \A field \in {"zestimate", "zpid"} :
            LET found == PathValue(field)
            IN  found.t \in {"number", "string"} =>
                    IF CoercedInteger(found) # 0
                    THEN ret.out[field] = JNum(CoercedInteger(found))
                    ELSE ret.out[field] # JNum(0)

RECURSIVE PropertyValues(_, _)
\* the values of every property named `key`, at any depth of v
PropertyValues(v, key) ==
    IF v.t # "object" THEN {}
    ELSE UNION { (IF v.v[i][1] = key THEN {v.v[i][2]} ELSE {}) \cup PropertyValues(v.v[i][2], key)
                 : i \in DOMAIN v.v }

DigitRange(field) ==
    IF field = "zestimate" THEN ZestimateMinDigits..ZestimateMaxDigits ELSE 1..10

\* the field as the structured path alone gives it
FromPath(field, found) ==
    IF field = "zestimate" THEN (IF found.t = "number" THEN found ELSE Null)
    ELSE IF found.t \in {"number", "string"} /\ CoercedInteger(found) # 0
         THEN JNum(CoercedInteger(found)) ELSE Null

\* C26: the scan of the serialized record is used only when no structured
\* path matched the field, and what it returns is the whole integer of a
\* property of that name, with a digit count within the range: never a quoted
\* text and never part of a longer number.
C26_ScanIsLastResort ==
    ExtractDone =>
        \A field \in {"zestimate", "zpid"} :
            LET found == PathValue(field)
                got   == ret.out[field]
            IN  IF found # Undefined
                THEN got = FromPath(field, found)
                ELSE \/ got = Null
                     \/ /\ got \in PropertyValues(ExtractRecord(arg), field)
                        /\ got.t = "number"
                        /\ Len(NatToStr(got.v)) \in DigitRange(field)

(***************************************************************************)
(* sendExpanded: the valuation band and the last sale of the mapped record  *)
(***************************************************************************)
NaN == [t |-> "nan"]

\* Number(x) for the values pick can give: null is 0, a text of digits is its
\* number, the empty text is 0, any other text is NaN
ToNumber(x) ==
    CASE x.t = "number" -> x
      [] x.t = "null" -> JNum(0)
      [] x.t = "string" /\ \A i \in DOMAIN x.v : IsDigit(x.v[i]) -> JNum(StrToNat(x.v))
      [] OTHER -> NaN

\* Number.isFinite(x): a number, and no text that looks like one
IsFiniteNumber(x) == x.t = "number"

\* Math.round(n * (100 + pct) / 100) for a non-negative result: halves go up
RoundPercent(n, pct) == (n * (100 + pct) + 50) \div 100

\* the `zestimate` local of sendExpanded
MappedValuation(out) ==
    LET d == Or(out.data, JObj(<<>>))
    IN  Coalesce(out.zestimate,
            Coalesce(Coalesce(pick(d, << <<"zestimate">> >>, 1),
                              pick(d, << <<"result", "zestimate">> >>, 1)),
                     pick(d, << <<"data", "zestimate">> >>, 1)))

BandPaths(name) == << <<name>>, <<"result", name>>, <<"data", name>> >>

\* zLowAbs ?? (Number.isFinite(zestimate) && Number.isFinite(zLowPct)
\*               ? Math.round(zestimate * (1 - zLowPct / 100)) : null), and the
\* same with + for the upper end
BandEnd(out, absName, pctName, sign) ==
    LET d         == Or(out.data, JObj(<<>>))
        zestimate == MappedValuation(out)
        zAbs      == pick(d, BandPaths(absName), 1)
        zPct      == ToNumber(pick(d, BandPaths(pctName), 1))
    IN  Coalesce(zAbs,
            IF IsFiniteNumber(zestimate) /\ IsFiniteNumber(zPct)
            THEN JNum(RoundPercent(zestimate.v, sign * zPct.v))
            ELSE Null)

zestimateLow(out) == BandEnd(out, "zestimateLow", "zestimateLowPercent", -1)

zestimateHigh(out) == BandEnd(out, "zestimateHigh", "zestimateHighPercent", 1)

\* whether the entry of the price history is a sale
IsSoldEntry(e) ==
    Includes(ToLowerCase(StringOf(Or(Or(Get(e, "event"), Get(e, "type")), JStr(<<>>)))),
             <<"s","o","l","d">>)

\* priceHistory.find(...): undefined when no entry is a sale
FindSold(history) ==
    IF \E i \in DOMAIN history : IsSoldEntry(history[i])
    THEN history[CHOOSE i \in DOMAIN history :
                    /\ IsSoldEntry(history[i])
                    /\ \A j \in 1..(i - 1) : ~IsSoldEntry(history[j])]
    ELSE Undefined

\* lastSoldPrice and lastSoldDate of the mapped record
lastSold(out) ==
    LET d            == Or(out.data, JObj(<<>>))
        priceHistory == Or(pick(d, << <<"priceHistory">>, <<"result", "priceHistory">> >>, 1),
                           JArr(<<>>))
        directPrice  == pick(d, << <<"lastSoldPrice">>, <<"result", "lastSoldPrice">> >>, 1)
        directDate   == pick(d, << <<"lastSoldDate">>, <<"result", "lastSoldDate">> >>, 1)
        scan         == (~Truthy(directPrice) \/ ~Truthy(directDate)) /\ priceHistory.t = "array"
        sold         == IF scan THEN FindSold(priceHistory.v) ELSE Undefined
    IN  [ lastSoldPrice |-> IF scan /\ ~Truthy(directPrice) /\ ~IsNullish(Get(sold, "price"))
                            THEN Get(sold, "price") ELSE directPrice,
          lastSoldDate  |-> IF scan /\ ~Truthy(directDate) /\ Truthy(Get(sold, "date"))
                            THEN Get(sold, "date") ELSE directDate ]

MaxHistory == 2

\* a record of the provider with the given fields, at the top or under `result`
MappedRecord(fields, nested) ==
    IF nested THEN JObj(<< <<"result", JObj(fields)>> >>) ELSE JObj(fields)

BandArgs ==
    [ mode      : {"band"},
      nested    : BOOLEAN,
      valuation : {JNum(450000), JNum(333), JStr(<<"3","3","3">>), Absent},
      lowAbs    : {JNum(400000), JNum(0), Absent},
      lowPct    : {JNum(10), JNum(0), JStr(<<"7">>), JStr(<<"a","b","c">>), Absent},
      highAbs   : {JNum(500000), Absent},
      highPct   : {JNum(10), JStr(<<"a","b","c">>), Absent} ]

BandOut(a) ==
    [ zestimate |-> Null,
      data |-> MappedRecord(Property("zestimate", a.valuation)
                            \o Property("zestimateLow", a.lowAbs)
                            \o Property("zestimateLowPercent", a.lowPct)
                            \o Property("zestimateHigh", a.highAbs)
                            \o Property("zestimateHighPercent", a.highPct), a.nested) ]

sSold == <<"S","o","l","d">>

sListed == <<"L","i","s","t","e","d">>

HistoryEntries ==
    { JObj(<< <<"event", JStr(sSold)>>, <<"price", JNum(250000)>>,
              <<"date", JStr(<<"2","0","1","9">>)>> >>),
      JObj(<< <<"type", JStr(<<"R","E","S","O","L","D">>)>>, <<"price", JNum(260000)>>,
              <<"date", JStr(<<"2","0","2","1">>)>> >>),
      JObj(<< <<"event", JStr(sListed)>>, <<"price", JNum(270000)>>,
              <<"date", JStr(<<"2","0","2","2">>)>> >>),
      JObj(<< <<"event", JStr(sListed)>>, <<"type", JStr(sSold)>>, <<"price", JNum(280000)>>,
              <<"date", JStr(<<"2","0","2","3">>)>> >>),
      JObj(<< <<"event", JStr(sSold)>>, <<"price", Null>> >>) }

SoldArgs ==
    [ mode    : {"sold"},
      nested  : BOOLEAN,
      price   : {JNum(300000), JNum(0), Absent},
      date    : {JStr(<<"2","0","2","0">>), JStr(<<>>), Absent},
      history : {Absent} \cup {JArr(h) : h \in UNION {[1..n -> HistoryEntries] : n \in 0..MaxHistory}} ]

SoldOut(a) ==
    [ zestimate |-> Null,
      data |-> MappedRecord(Property("lastSoldPrice", a.price)
                            \o Property("lastSoldDate", a.date)
                            \o Property("priceHistory", a.history), a.nested) ]

MapInit ==
    /\ Parked
    /\ arg \in BandArgs \cup SoldArgs
    /\ ret = Unset

BandApply ==
    /\ arg.mode = "band"
    /\ ret = Unset
    /\ ret' = [mode |-> "band", zestimate |-> MappedValuation(BandOut(arg)),
               zestimateLow |-> zestimateLow(BandOut(arg)),
               zestimateHigh |-> zestimateHigh(BandOut(arg))]
    /\ UNCHANGED <<env, query, source, pc, lk, attempts, last, calls, browser, doc, res, arg>>

SoldApply ==
    /\ arg.mode = "sold"
    /\ ret = Unset
    /\ ret' = [mode |-> "sold", out |-> lastSold(SoldOut(arg))]
    /\ UNCHANGED <<env, query, source, pc, lk, attempts, last, calls, browser, doc, res, arg>>

MapNext == BandApply \/ SoldApply

MapSpec == MapInit /\ [][MapNext]_vars

\* the explicit field of the record, Null when it has none
FieldOf(val) == IF val = Absent THEN Null ELSE val

\* the end of the band the claim describes: the explicit end, else the
\* valuation moved by the band's percentage, else nothing
ClaimedBandEnd(valuation, explicit, pct, sign) ==
    IF explicit # Absent THEN explicit
    ELSE IF pct # Absent /\ valuation.t = "number" /\ ToNumber(pct).t = "number"
         THEN JNum(RoundPercent(valuation.v, sign * ToNumber(pct).v))
         ELSE Null

\* C27: zestimateLow (zestimateHigh) is the explicit low (high) field when the
\* record has one; otherwise, with a percentage band in the record and a
\* numeric valuation, the valuation reduced (increased) by that percentage and
\* rounded; otherwise null.
C27_BandFromRecord ==
    ret.mode = "band" =>
        /\ ret.zestimateLow = ClaimedBandEnd(FieldOf(arg.valuation), arg.lowAbs, arg.lowPct, -1)
        /\ ret.zestimateHigh = ClaimedBandEnd(FieldOf(arg.valuation), arg.highAbs, arg.highPct, 1)

\* the first entry of the history whose event or type contains "sold"
ClaimedSale(history) ==
    LET sale(e) == \/ Includes(ToLowerCase(StringOf(Get(e, "event"))), <<"s","o","l","d">>)
                   \/ Includes(ToLowerCase(StringOf(Get(e, "type"))), <<"s","o","l","d">>)
        h       == IF history = Absent THEN <<>> ELSE history.v
    IN  IF \E i \in DOMAIN h : sale(h[i])
        THEN h[CHOOSE i \in DOMAIN h : sale(h[i]) /\ \A j \in 1..(i - 1) : ~sale(h[j])]
        ELSE Undefined

\* C28: lastSoldPrice and lastSoldDate are the explicit fields when the record
\* has them; otherwise they come from the first entry of the price history
\* whose event or type contains "sold" in any case, and are null without one.
C28_LastSale ==
    ret.mode = "sold" =>
        LET sale == ClaimedSale(arg.history)
        IN  /\ ret.out.lastSoldPrice =
                   (IF arg.price # Absent THEN arg.price ELSE Coalesce(Get(sale, "price"), Null))
            /\ ret.out.lastSoldDate =
                   (IF arg.date # Absent THEN arg.date ELSE Coalesce(Get(sale, "date"), Null))

\* the lookups request r has begun: those that returned and the one running
Began(r) == Len(calls[r]) + (IF lk[r].site # "none" THEN 1 ELSE 0)

ApiFirst == env.preferApi /\ env.hasKeys

PageScripts ==
    { Script(HitScript, "status", TRUE, sb, db, TRUE) : sb \in SearchBlobs, db \in DetailBlobs }

PageInit ==
    /\ env \in {[preferApi |-> FALSE, hasKeys |-> TRUE], [preferApi |-> FALSE, hasKeys |-> FALSE]}
    /\ query = [r \in Requests |-> BaseQuery]
    /\ source \in [Requests -> PageScripts]
    /\ pc = [r \in Requests |-> "received"]
    /\ lk = [r \in Requests |-> IdleFrame]
    /\ attempts = [r \in Requests |-> <<>>]
    /\ last = [r \in Requests |-> "none"]
    /\ calls = [r \in Requests |-> <<>>]
    /\ browser = [r \in Requests |-> "none"]
    /\ doc = [r \in Requests |-> NoDoc]
    /\ res = [r \in Requests |-> <<>>]
    /\ arg = <<>>
    /\ ret = <<>>

PageNext == \E r \in Requests : ScriptedStep(r)

PageSpec == PageInit /\ [][PageNext]_vars

\* the results listed on the search page of request r
ListedResults(r) ==
    LET b == source[r].searchBlob
    IN  listResultsOf(IF b.kind = "json" THEN b.root ELSE Null)

\* the result pickBestSearchResult chooses among them
ChosenResult(r) ==
    pickBestSearchResult(ListedResults(r), query[r].address, query[r].city).best

\* the address of the chosen result's page
ChosenUrl(r) ==
    LET u == Get(ChosenResult(r), "detailUrl")
    IN  IF StartsWith(u.v, HttpPrefix) THEN u ELSE JStr(ZillowOrigin \o u.v)

HasResults(r) == ListedResults(r).t = "array" /\ Len(ListedResults(r).v) > 0

\* C30: the detail page is fetched only for the result pickBestSearchResult
\* chose. When that result has no detailUrl the request ends as NoMatch, with
\* confidence 0 and a note, and no second page is fetched, whatever the other
\* results hold; when it has one, the property_url returned is its URL.
C30_DetailOfChosenOnly ==
    \A r \in DOMAIN pc :
        /\ (pc[r] \in {"goto_detail", "detail_blob"} \/ doc[r] # NoDoc) =>
               /\ HasResults(r)
               /\ Truthy(Get(ChosenResult(r), "detailUrl"))
               /\ doc[r].detailUrl = ChosenUrl(r)
        /\ \A k \in 1..Len(res[r]) :
               (res[r][k].ok /\ res[r][k].source = "searchUrl" /\ res[r][k].property_url # Null)
                   => res[r][k].property_url = ChosenUrl(r)
        /\ (Finished(r) /\ HasResults(r) /\ ~Truthy(Get(ChosenResult(r), "detailUrl"))) =>
               /\ Len(res[r]) = 1
               /\ NullRecordWithNote(res[r][1])
               /\ res[r][1].match_confidence = 0

\* the chosen result has no detailUrl while another result has one, and the
\* request has ended as NoMatch
C30_Witness ==
    \E r \in DOMAIN pc :
        /\ Finished(r) /\ HasResults(r)
        /\ ~Truthy(Get(ChosenResult(r), "detailUrl"))
        /\ \E i \in DOMAIN ListedResults(r).v : Truthy(Get(ListedResults(r).v[i], "detailUrl"))
        /\ Len(res[r]) = 1 /\ res[r][1].match_confidence = 0

=============================================================================
